---- MODULE Spec2Model ----
(***************************************************************************)
(* Model of the Sanctum Infinity adapter (jup-interface/src/lib.rs): the    *)
(* InfAmm instance, its poll / update / quote cycle and the clock           *)
(* special-casing of quote.                                                 *)
(*                                                                         *)
(* Addresses are pairs <<tag, mint>>.  Account bytes are records           *)
(* [bad |-> BOOLEAN, val |-> decoded content]; bad bytes fail to            *)
(* deserialize.                                                            *)
(***************************************************************************)
EXTENDS Integers, Sequences, FiniteSets, TLC

(* ---------------------------------------------------------------------- *)
(* Bounds                                                                  *)
(* ---------------------------------------------------------------------- *)

\* largest ledger epoch the shared counter and the epoch markers reach
MaxEpoch == 1

\* the width of the amounts in bits, standing for the 64 of u64
WordBits == 16

\* the number of accounts of a trade instruction
IxAccsLen == 3

(* ---------------------------------------------------------------------- *)
(* Well-known addresses and mints                                          *)
(* ---------------------------------------------------------------------- *)

POOL_STATE_ID == <<"pool_state", "">>
LST_STATE_LIST_ID == <<"lst_state_list", "">>
SYSVAR_CLOCK == <<"sysvar_clock", "">>
LIDO_STATE == <<"lido_state", "">>
MARINADE_STATE == <<"marinade_state", "">>
FLATFEE_STATE == <<"flatfee_state", "">>
FLATSLAB_SLAB == <<"flatslab_slab", "">>
NO_ADDR == <<"", "">>

INF_MINT_ADDR == "INF"
WSOL_MINT_ADDR == "WSOL"
MSOL_MINT_ADDR == "MSOL"
STSOL_MINT_ADDR == "STSOL"
JUPSOL_MINT == "JUPSOL"
\* an spl-backed mint the sanctum lst list has no stake pool for
NOSPL_MINT == "NOSPL"
\* an LP mint other than the built-in one, as a later pool descriptor may name
ALT_LP_MINT == "ALTLP"

Mints == {INF_MINT_ADDR, WSOL_MINT_ADDR, MSOL_MINT_ADDR, STSOL_MINT_ADDR,
          JUPSOL_MINT, NOSPL_MINT, ALT_LP_MINT}

LpMints == {INF_MINT_ADDR, ALT_LP_MINT}

MintAcc(mint) == <<"mint", mint>>
ReservesAcc(mint) == <<"reserves", mint>>
FeeAcc(mint) == <<"flatfee_fee", mint>>
StakePoolAcc(mint) == <<"stake_pool", mint>>

\* mint -> stake pool address, built once at construction
spl_lsts == [m \in {JUPSOL_MINT} |-> StakePoolAcc(m)]

SplKinds == {"Spl", "SanctumSpl", "SanctumSplMulti"}
ClockKinds == {"Lido"} \cup SplKinds
SvcKinds == ClockKinds \cup {"Marinade", "Wsol"}
PricingKinds == {"FlatFee", "FlatSlab"}
\* a calculator program the library has no backend for
UNKNOWN_SVC == "Unknown"

Range(s) == {s[i] : i \in DOMAIN s}

RECURSIVE SeqCat(_)
SeqCat(ss) == IF ss = <<>> THEN <<>> ELSE Head(ss) \o SeqCat(Tail(ss))

SeqMap(F(_), s) == [i \in DOMAIN s |-> F(s[i])]

SeqFilter(P(_), s) == SelectSeq(s, P)

\* a map m with key k bound to v
MapPut(m, k, v) == [x \in (DOMAIN m) \cup {k} |-> IF x = k THEN v ELSE m[x]]

MapRemove(m, k) == [x \in (DOMAIN m) \ {k} |-> m[x]]

(* ---------------------------------------------------------------------- *)
(* Asset lists and the ledger                                              *)
(* ---------------------------------------------------------------------- *)

\* the value of an asset's reserves the list account records for it
SolValueOf(mint) ==
    CASE mint = JUPSOL_MINT -> 1
      [] mint = WSOL_MINT_ADDR -> 2
      [] mint = NOSPL_MINT -> 3
      [] mint = STSOL_MINT_ADDR -> 4
      [] OTHER -> 5

LstState(mint, svc) ==
    [mint |-> mint, sol_value_calculator |-> svc, sol_value |-> SolValueOf(mint)]

\* the asset lists a fetched (or initial) list account may decode to
LstLists ==
    << << LstState(JUPSOL_MINT, "SanctumSpl"), LstState(WSOL_MINT_ADDR, "Wsol"),
          LstState(NOSPL_MINT, "Lido") >>,
       << LstState(NOSPL_MINT, "Spl"), LstState(JUPSOL_MINT, "SanctumSplMulti"),
          LstState(STSOL_MINT_ADDR, "Marinade") >>,
       << LstState(WSOL_MINT_ADDR, "Lido"), LstState(JUPSOL_MINT, "Spl"),
          LstState(ALT_LP_MINT, "Lido") >>,
       << LstState(NOSPL_MINT, "Marinade"), LstState(STSOL_MINT_ADDR, UNKNOWN_SVC),
          LstState(JUPSOL_MINT, "Spl") >> >>

ListMints(list) == SeqMap(LAMBDA l : l.mint, list)

\* the sum of the reserve values an asset list records
RECURSIVE SumSolValue(_)
SumSolValue(list) ==
    IF list = <<>> THEN 0 ELSE Head(list).sol_value + SumSolValue(Tail(list))

PoolState(lp, pp) == [lp_token_mint |-> lp, pricing_program |-> pp, total_sol_value |-> 0]

\* the pool descriptors the ledger goes through
Pools ==
    << PoolState(INF_MINT_ADDR, "FlatSlab"),
       PoolState(ALT_LP_MINT, "FlatFee") >>

\* a ledger snapshot: the pool descriptor, the asset list and the epoch the
\* stake pools were last updated in
Scens == [pool : DOMAIN Pools, list : DOMAIN LstLists, epoch : 0..MaxEpoch]

\* consts.rs: the pool assumed until the first update replaces it
DEFAULT_MAINNET_POOL == PoolState(INF_MINT_ADDR, "FlatFee")

\* the addresses that hold an account in ledger snapshot sc
LedgerHas(sc, a) ==
    \/ a \in {POOL_STATE_ID, LST_STATE_LIST_ID, SYSVAR_CLOCK, LIDO_STATE, MARINADE_STATE}
    \/ a[1] = "mint" /\ a[2] \in LpMints
    \/ a[1] = "reserves" /\ a[2] \in Mints
    \/ a[1] = "stake_pool" /\ a[2] \in DOMAIN spl_lsts
    \/ Pools[sc.pool].pricing_program = "FlatFee"
          /\ (a = FLATFEE_STATE \/ (a[1] = "flatfee_fee" /\ a[2] \in Mints))
    \/ Pools[sc.pool].pricing_program = "FlatSlab" /\ a = FLATSLAB_SLAB

\* the decoded content of the account at a
LedgerVal(sc, a) ==
    CASE a = POOL_STATE_ID ->
             [Pools[sc.pool] EXCEPT !.total_sol_value = SumSolValue(LstLists[sc.list])]
      [] a = LST_STATE_LIST_ID -> LstLists[sc.list]
      [] a[1] = "mint" -> 1000
      [] a[1] = "reserves" -> 10
      [] a = LIDO_STATE -> sc.epoch
      [] a[1] = "stake_pool" -> sc.epoch
      [] a = SYSVAR_CLOCK -> sc.epoch
      [] OTHER -> 0

\* the fetched map handed to update: the ledger snapshot am.scen restricted
\* to am.dom, with at most one account dropped or corrupted (am.fault)
NoFault == [kind |-> "none", addr |-> NO_ADDR]

AmHas(am, a) ==
    /\ LedgerHas(am.scen, a)
    /\ am.dom = "noclock" => a # SYSVAR_CLOCK
    /\ am.dom = "requested" => a \in Range(am.req)
    /\ ~(am.fault.kind = "missing" /\ am.fault.addr = a)

AmBad(am, a) == am.fault.kind = "bad" /\ am.fault.addr = a

AmVal(am, a) == LedgerVal(am.scen, a)

(* ---------------------------------------------------------------------- *)
(* Errors                                                                  *)
(* ---------------------------------------------------------------------- *)

Err(kind, at) == [kind |-> kind, at |-> at]
Ok == Err("Ok", NO_ADDR)

(* ---------------------------------------------------------------------- *)
(* Calculators and pricing programs                                        *)
(* ---------------------------------------------------------------------- *)

\* a calculator: its backend, whether its data has been loaded, the epoch
\* marker of the loaded data and the clock epoch it holds
Calc(kind, loaded, epoch) ==
    [kind |-> kind, loaded |-> loaded, epoch |-> epoch, current_epoch |-> 0]

\* a fresh calculator for lst_state, or the error creating it
TryDefaultLstSvc(lst_state) ==
    LET kind == lst_state.sol_value_calculator
        mint == lst_state.mint
    IN  IF kind \notin SvcKinds
        THEN [err |-> Err("UnknownSvc", <<"svc", kind>>), calc |-> Calc("Wsol", FALSE, 0)]
        ELSE IF kind \in SplKinds /\ mint \notin DOMAIN spl_lsts
        THEN [err |-> Err("MissingSplData", MintAcc(mint)), calc |-> Calc("Wsol", FALSE, 0)]
        ELSE [err |-> Ok, calc |-> Calc(kind, kind = "Wsol", 0)]

\* as TryGetOrInitLstSvc, a fresh calculator made on every call
TryInitLstSvc(lst_calcs, lst_state) ==
    LET d == TryDefaultLstSvc(lst_state)
    IN  IF d.err.kind # "Ok"
        THEN [err |-> d.err, lst_calcs |-> lst_calcs]
        ELSE [err |-> Ok, lst_calcs |-> MapPut(lst_calcs, lst_state.mint, d.calc)]

\* get-or-create by mint; a calculator of another backend is replaced
TryGetOrInitLstSvc(lst_calcs, lst_state) ==
    LET mint == lst_state.mint
    IN  IF mint \in DOMAIN lst_calcs /\ lst_calcs[mint].kind = lst_state.sol_value_calculator
        THEN [err |-> Ok, lst_calcs |-> lst_calcs]
        ELSE LET d == TryDefaultLstSvc(lst_state)
             IN  IF d.err.kind # "Ok"
                 THEN [err |-> d.err, lst_calcs |-> lst_calcs]
                 ELSE [err |-> Ok, lst_calcs |-> MapPut(lst_calcs, mint, d.calc)]

\* the accounts a calculator is refreshed from, the clock included
SvcAccountsToUpdate(calc, mint) ==
    CASE calc.kind = "Lido" -> <<LIDO_STATE, SYSVAR_CLOCK>>
      [] calc.kind \in SplKinds -> <<spl_lsts[mint], SYSVAR_CLOCK>>
      [] calc.kind = "Marinade" -> <<MARINADE_STATE>>
      [] OTHER -> <<>>

DefaultPricing(kind) == [kind |-> kind, state_loaded |-> FALSE, fees |-> {}]

PricingAccountsToUpdateAll(pricing, mints) ==
    IF pricing.kind = "FlatFee"
    THEN <<FLATFEE_STATE>> \o SeqMap(FeeAcc, mints)
    ELSE <<FLATSLAB_SLAB>>

(* ---------------------------------------------------------------------- *)
(* The instance                                                            *)
(* ---------------------------------------------------------------------- *)

VARIABLES
    ledger,         \* the accounts on the ledger, as a snapshot of Scens
    inner,          \* InfAmm::inner, the InfStd mirror
    current_epoch,  \* InfAmm::current_epoch, the shared epoch counter
    ret,            \* the call the host has just made and what it returned
    clone           \* the instance clone_amm returned, if any

vars == <<ledger, inner, current_epoch, ret, clone>>

Idle == [op |-> "idle"]

\* the asset list the stored bytes decode to; none when they do not parse
TryLstStateList(inn) == inn.lst_state_list_data

\* as LstStateListOrDefault, the first of the lists for bytes that do not parse
LstStateListOrFirst(inn) ==
    IF inn.lst_state_list_data.bad THEN LstLists[1] ELSE inn.lst_state_list_data.val

LstStateListOrDefault(inn) ==
    IF inn.lst_state_list_data.bad THEN <<>> ELSE inn.lst_state_list_data.val

\* InfStd::accounts_to_update_lst: the calculator's accounts and the reserves
AccountsToUpdateLst(inn, lst_state) ==
    IF lst_state.mint \notin DOMAIN inn.lst_calcs
    THEN [err |-> Err("MissingSvcData", MintAcc(lst_state.mint)), accs |-> <<>>]
    ELSE [err |-> Ok,
          accs |-> SvcAccountsToUpdate(inn.lst_calcs[lst_state.mint], lst_state.mint)
                   \o <<ReservesAcc(lst_state.mint)>>]

\* as LstAccountsNoClock, the clock left in
LstAccountsWithClock(inn, lst_state) ==
    LET r == AccountsToUpdateLst(inn, lst_state)
    IN  IF r.err.kind # "Ok" THEN <<>> ELSE r.accs

\* as LstAccountsNoClock, the reserves account left out
LstAccountsCalcOnly(inn, lst_state) ==
    LET r == AccountsToUpdateLst(inn, lst_state)
    IN  IF r.err.kind # "Ok" THEN <<>>
        ELSE SeqFilter(LAMBDA pk : pk # SYSVAR_CLOCK /\ pk # ReservesAcc(lst_state.mint), r.accs)

\* as LstAccountsNoClock, the reserves asked for without a calculator too
LstAccountsReservesAlways(inn, lst_state) ==
    LET r == AccountsToUpdateLst(inn, lst_state)
    IN  IF r.err.kind # "Ok" THEN <<ReservesAcc(lst_state.mint)>>
        ELSE SeqFilter(LAMBDA pk : pk # SYSVAR_CLOCK, r.accs)

\* the per-asset part of get_accounts_to_update for one asset
LstAccountsNoClock(inn, lst_state) ==
    LET r == AccountsToUpdateLst(inn, lst_state)
    IN  IF r.err.kind # "Ok" THEN <<>>
        ELSE SeqFilter(LAMBDA pk : pk # SYSVAR_CLOCK, r.accs)

\* s without the later occurrences of its elements
RECURSIVE Dedup(_)
Dedup(s) ==
    IF s = <<>> THEN <<>>
    ELSE LET front == Dedup(SubSeq(s, 1, Len(s) - 1))
         IN  IF s[Len(s)] \in Range(front) THEN front ELSE Append(front, s[Len(s)])

\* as GetAccountsToUpdate, each address returned once
GetAccountsToUpdateDedup(inn) ==
    LET lst_state_list == LstStateListOrDefault(inn)
    IN  Dedup(<<POOL_STATE_ID, LST_STATE_LIST_ID, MintAcc(inn.pool.lp_token_mint)>>
              \o PricingAccountsToUpdateAll(inn.pricing, ListMints(lst_state_list))
              \o SeqCat(SeqMap(LAMBDA l : LstAccountsNoClock(inn, l), lst_state_list)))

\* as GetAccountsToUpdate, asking for the built-in LP mint
GetAccountsToUpdateConstLp(inn) ==
    LET lst_state_list == LstStateListOrDefault(inn)
    IN  <<POOL_STATE_ID, LST_STATE_LIST_ID, MintAcc(INF_MINT_ADDR)>>
        \o PricingAccountsToUpdateAll(inn.pricing, ListMints(lst_state_list))
        \o SeqCat(SeqMap(LAMBDA l : LstAccountsNoClock(inn, l), lst_state_list))

GetAccountsToUpdate(inn) ==
    LET lst_state_list == LstStateListOrDefault(inn)
    IN  <<POOL_STATE_ID, LST_STATE_LIST_ID, MintAcc(inn.pool.lp_token_mint)>>
        \o PricingAccountsToUpdateAll(inn.pricing, ListMints(lst_state_list))
        \o SeqCat(SeqMap(LAMBDA l : LstAccountsNoClock(inn, l), lst_state_list))

GetReserveMints(inn) ==
    ListMints(LstStateListOrDefault(inn)) \o <<inn.pool.lp_token_mint>>

(* ---------------------------------------------------------------------- *)
(* Construction                                                            *)
(* ---------------------------------------------------------------------- *)

\* as InitLstCalcs, stopping at missing spl data as at any other error
RECURSIVE InitLstCalcsStrict(_, _)
InitLstCalcsStrict(r, list) ==
    IF list = <<>> \/ r.err.kind # "Ok" THEN r
    ELSE LET g == TryGetOrInitLstSvc(r.lst_calcs, Head(list))
         IN  InitLstCalcsStrict([err |-> g.err, lst_calcs |-> g.lst_calcs], Tail(list))

\* the calculators created for the initial list; MissingSplData is skipped
RECURSIVE InitLstCalcs(_, _)
InitLstCalcs(r, list) ==
    IF list = <<>> \/ r.err.kind # "Ok" THEN r
    ELSE LET g == TryGetOrInitLstSvc(r.lst_calcs, Head(list))
         IN  IF g.err.kind \in {"Ok", "MissingSplData"}
             THEN InitLstCalcs([err |-> Ok, lst_calcs |-> g.lst_calcs], Tail(list))
             ELSE [err |-> g.err, lst_calcs |-> g.lst_calcs]

\* InfAmm::new on the asset-list account holding list
New(list) ==
    LET c == InitLstCalcs([err |-> Ok, lst_calcs |-> <<>>], list)
    IN  [err |-> c.err,
         inner |-> [pool |-> DEFAULT_MAINNET_POOL,
                    lst_state_list_data |-> [bad |-> FALSE, val |-> list],
                    lp_token_supply |-> [some |-> FALSE, v |-> 0],
                    pricing |-> DefaultPricing(DEFAULT_MAINNET_POOL.pricing_program),
                    lst_calcs |-> c.lst_calcs,
                    lst_reserves |-> <<>>]]

\* no instance constructed
NoInstance == [constructed |-> FALSE]

\* as FromKeyedAccount, the pool descriptor's address accepted as well
FromKeyedAccountOrPool(key, list) ==
    IF key \notin {LST_STATE_LIST_ID, POOL_STATE_ID}
    THEN [err |-> Err("IncorrectKey", key), inner |-> NoInstance]
    ELSE LET n == New(list)
         IN  [err |-> n.err, inner |-> IF n.err.kind = "Ok" THEN n.inner ELSE NoInstance]

\* from_keyed_account on the account at key holding list: the key check of
\* InfAmm::new, then the construction; no instance on an error
FromKeyedAccount(key, list) ==
    IF key # LST_STATE_LIST_ID
    THEN [err |-> Err("IncorrectKey", key), inner |-> NoInstance]
    ELSE LET n == New(list)
         IN  [err |-> n.err, inner |-> IF n.err.kind = "Ok" THEN n.inner ELSE NoInstance]

\* no clone taken yet
NoClone == [taken |-> FALSE]

\* as CloneAmm, the clone's mirror being the storage of the original
CloneAmmSharedInner(inn) == [taken |-> TRUE, owned |-> FALSE, inner |-> inn]

\* clone_amm, by the derived Clone: the mirror is copied into storage of the
\* clone's own, the epoch counter stays the one shared counter
CloneAmm(inn) == [taken |-> TRUE, owned |-> TRUE, inner |-> inn]

\* as CurrentEpochOf, the clone reading a counter of its own that the clock
\* source does not advance
CurrentEpochOwn(c, counter) == 0

\* the epoch instance c loads: the one counter, which it shares
CurrentEpochOf(c, counter) == counter

\* the mirror instance c reads and writes, orig being the original's
InnerOf(c, orig) == IF c.owned THEN c.inner ELSE orig

(* ---------------------------------------------------------------------- *)
(* update                                                                  *)
(* ---------------------------------------------------------------------- *)

\* an update in progress: the mirror, the stages applied so far, the error
Step(inn, log, err) == [inner |-> inn, log |-> log, err |-> err]

Fail(r, kind, at) == Step(r.inner, r.log, Err(kind, at))

\* UpdateMap::get_account_checked followed by the account's deserializer
AccErr(am, a) ==
    IF ~AmHas(am, a) THEN Err("AccMissing", a)
    ELSE IF AmBad(am, a) THEN Err("AccDeser", a)
    ELSE Ok

\* the first account of accs that cannot be read, Ok when all can
RECURSIVE FirstAccErr(_, _)
FirstAccErr(am, accs) ==
    IF accs = <<>> THEN Ok
    ELSE IF AccErr(am, Head(accs)).kind # "Ok" THEN AccErr(am, Head(accs))
    ELSE FirstAccErr(am, Tail(accs))

\* as UpdatePool, the total pool value kept from the pool held before
UpdatePoolKeepTotal(r, am) ==
    LET e == AccErr(am, POOL_STATE_ID)
        pool == [AmVal(am, POOL_STATE_ID) EXCEPT
                    !.total_sol_value = r.inner.pool.total_sol_value]
    IN  IF e.kind # "Ok" THEN Fail(r, e.kind, e.at)
        ELSE Step([r.inner EXCEPT
                      !.pool = pool,
                      !.pricing = IF pool.pricing_program # r.inner.pool.pricing_program
                                  THEN DefaultPricing(pool.pricing_program) ELSE @],
                  Append(r.log, <<"pool", "">>), Ok)

\* InfStd::update_pool: replaces the pool descriptor; a changed pricing
\* program starts over with that program's default pricing state
UpdatePool(r, am) ==
    LET e == AccErr(am, POOL_STATE_ID)
        pool == AmVal(am, POOL_STATE_ID)
    IN  IF e.kind # "Ok" THEN Fail(r, e.kind, e.at)
        ELSE Step([r.inner EXCEPT
                      !.pool = pool,
                      !.pricing = IF pool.pricing_program # r.inner.pool.pricing_program
                                  THEN DefaultPricing(pool.pricing_program) ELSE @],
                  Append(r.log, <<"pool", "">>), Ok)

\* InfStd::update_lst_state_list: stores the fetched bytes as they are
UpdateLstStateList(r, am) ==
    IF ~AmHas(am, LST_STATE_LIST_ID) THEN Fail(r, "AccMissing", LST_STATE_LIST_ID)
    ELSE Step([r.inner EXCEPT
                  !.lst_state_list_data =
                      IF AmBad(am, LST_STATE_LIST_ID)
                      THEN [bad |-> TRUE, val |-> <<>>]
                      ELSE [bad |-> FALSE, val |-> AmVal(am, LST_STATE_LIST_ID)]],
              Append(r.log, <<"lst_state_list", "">>), Ok)

\* as UpdateLpTokenSupply, keeping the previous supply when the mint account
\* cannot be read
UpdateLpTokenSupplyKeep(r, am) ==
    LET a == MintAcc(r.inner.pool.lp_token_mint)
        e == AccErr(am, a)
    IN  Step([r.inner EXCEPT !.lp_token_supply =
                  IF e.kind # "Ok" THEN @ ELSE [some |-> TRUE, v |-> AmVal(am, a)]],
             Append(r.log, <<"lp_token_supply", "">>), Ok)

\* InfStd::update_lp_token_supply: the supply of the stored pool's LP mint
UpdateLpTokenSupply(r, am) ==
    LET a == MintAcc(r.inner.pool.lp_token_mint)
        e == AccErr(am, a)
    IN  IF e.kind # "Ok" THEN Fail(r, e.kind, e.at)
        ELSE Step([r.inner EXCEPT !.lp_token_supply = [some |-> TRUE, v |-> AmVal(am, a)]],
                  Append(r.log, <<"lp_token_supply", "">>), Ok)

\* lib.rs 249-252: the stored asset list has to parse
ParseLstStateList(r) ==
    IF r.inner.lst_state_list_data.bad THEN Fail(r, "AccDeser", LST_STATE_LIST_ID) ELSE r

\* the pricing state after its accounts accs were read in order
RECURSIVE PricingLoad(_, _)
PricingLoad(pricing, accs) ==
    IF accs = <<>> THEN pricing
    ELSE PricingLoad(
            IF Head(accs)[1] = "flatfee_fee"
            THEN [pricing EXCEPT !.fees = @ \cup {Head(accs)[2]}]
            ELSE [pricing EXCEPT !.state_loaded = TRUE],
            Tail(accs))

\* pricing.update_all over the mints of the stored list
UpdatePricingAll(r, am) ==
    LET accs == PricingAccountsToUpdateAll(r.inner.pricing,
                                           ListMints(r.inner.lst_state_list_data.val))
        e == FirstAccErr(am, accs)
    IN  IF e.kind # "Ok" THEN Fail(r, e.kind, e.at)
        ELSE Step([r.inner EXCEPT !.pricing = PricingLoad(@, accs)],
                  Append(r.log, <<"pricing", "">>), Ok)

\* InfStd::update_lst_reserves: the reserves balance of one asset
UpdateLstReserves(r, lst_state, am) ==
    LET a == ReservesAcc(lst_state.mint)
        e == AccErr(am, a)
    IN  IF e.kind # "Ok" THEN Fail(r, e.kind, e.at)
        ELSE Step([r.inner EXCEPT !.lst_reserves = MapPut(@, lst_state.mint, AmVal(am, a))],
                  Append(r.log, <<"reserves", lst_state.mint>>), Ok)

\* as UpdateSvc, refusing data older than the shared epoch counter
UpdateSvcEpochChecked(calc, mint, am, use_clock) ==
    LET accs == SeqFilter(LAMBDA pk : use_clock \/ pk # SYSVAR_CLOCK,
                          SvcAccountsToUpdate(calc, mint))
        e == FirstAccErr(am, accs)
    IN  IF e.kind # "Ok" THEN [err |-> e, calc |-> calc]
        ELSE IF calc.kind \in ClockKinds /\ AmVal(am, accs[1]) < current_epoch
        THEN [err |-> Err("NotUpdated", accs[1]), calc |-> calc]
        ELSE [err |-> Ok,
              calc |-> [kind |-> calc.kind,
                        loaded |-> TRUE,
                        epoch |-> IF calc.kind \in ClockKinds THEN AmVal(am, accs[1]) ELSE 0,
                        current_epoch |-> calc.current_epoch]]

\* UpdateSvc::update_svc (use_clock) and update_svc_no_clock (~use_clock):
\* the calculator reloaded from its accounts, or the first unreadable one
UpdateSvc(calc, mint, am, use_clock) ==
    LET accs == SeqFilter(LAMBDA pk : use_clock \/ pk # SYSVAR_CLOCK,
                          SvcAccountsToUpdate(calc, mint))
        e == FirstAccErr(am, accs)
    IN  IF e.kind # "Ok" THEN [err |-> e, calc |-> calc]
        ELSE [err |-> Ok,
              calc |-> [kind |-> calc.kind,
                        loaded |-> TRUE,
                        epoch |-> IF calc.kind \in ClockKinds THEN AmVal(am, accs[1]) ELSE 0,
                        current_epoch |-> IF use_clock /\ calc.kind \in ClockKinds
                                          THEN AmVal(am, SYSVAR_CLOCK)
                                          ELSE calc.current_epoch]]

\* as OmitsClock, every calculator refreshed with the clock
OmitsClockNever(kind) == FALSE

\* as OmitsClock, Lido refreshed with the clock
OmitsClockSplOnly(kind) == kind \in SplKinds

\* lib.rs 280-303: the backends refreshed with the clock-omitting variant
OmitsClock(kind) == kind \in ClockKinds

\* as UpdateLst, every error of get-or-create absorbed like missing spl data
UpdateLstAbsorbAll(r, lst_state, am) ==
    LET r1 == UpdateLstReserves(r, lst_state, am)
        mint == lst_state.mint
        g == TryGetOrInitLstSvc(r1.inner.lst_calcs, lst_state)
    IN  IF r1.err.kind # "Ok" THEN r1
        ELSE IF g.err.kind # "Ok"
        THEN Step([r1.inner EXCEPT !.lst_calcs = MapRemove(@, mint)],
                  Append(r1.log, <<"calc_removed", mint>>), Ok)
        ELSE LET u == UpdateSvc(g.lst_calcs[mint], mint, am,
                                ~OmitsClock(g.lst_calcs[mint].kind))
                 calcs == [g.lst_calcs EXCEPT ![mint] = u.calc]
             IN  IF u.err.kind # "Ok"
                 THEN Step([r1.inner EXCEPT !.lst_calcs = g.lst_calcs], r1.log, u.err)
                 ELSE Step([r1.inner EXCEPT !.lst_calcs = calcs],
                           Append(r1.log, <<"calc", mint>>), Ok)

\* as UpdateLst, a calculator without spl data left in the registry
UpdateLstKeepCalc(r, lst_state, am) ==
    LET r1 == UpdateLstReserves(r, lst_state, am)
        mint == lst_state.mint
        g == TryGetOrInitLstSvc(r1.inner.lst_calcs, lst_state)
    IN  IF r1.err.kind # "Ok" THEN r1
        ELSE IF g.err.kind = "MissingSplData"
        THEN Step(r1.inner, Append(r1.log, <<"calc_removed", mint>>), Ok)
        ELSE IF g.err.kind # "Ok" THEN Fail(r1, g.err.kind, g.err.at)
        ELSE LET u == UpdateSvc(g.lst_calcs[mint], mint, am,
                                ~OmitsClock(g.lst_calcs[mint].kind))
                 calcs == [g.lst_calcs EXCEPT ![mint] = u.calc]
             IN  IF u.err.kind # "Ok"
                 THEN Step([r1.inner EXCEPT !.lst_calcs = g.lst_calcs], r1.log, u.err)
                 ELSE Step([r1.inner EXCEPT !.lst_calcs = calcs],
                           Append(r1.log, <<"calc", mint>>), Ok)

\* lib.rs 264-303: one asset of the list
UpdateLst(r, lst_state, am) ==
    LET r1 == UpdateLstReserves(r, lst_state, am)
        mint == lst_state.mint
        g == TryGetOrInitLstSvc(r1.inner.lst_calcs, lst_state)
    IN  IF r1.err.kind # "Ok" THEN r1
        ELSE IF g.err.kind = "MissingSplData"
        THEN Step([r1.inner EXCEPT !.lst_calcs = MapRemove(@, mint)],
                  Append(r1.log, <<"calc_removed", mint>>), Ok)
        ELSE IF g.err.kind # "Ok" THEN Fail(r1, g.err.kind, g.err.at)
        ELSE LET u == UpdateSvc(g.lst_calcs[mint], mint, am,
                                ~OmitsClock(g.lst_calcs[mint].kind))
                 calcs == [g.lst_calcs EXCEPT ![mint] = u.calc]
             IN  IF u.err.kind # "Ok"
                 THEN Step([r1.inner EXCEPT !.lst_calcs = g.lst_calcs], r1.log, u.err)
                 ELSE Step([r1.inner EXCEPT !.lst_calcs = calcs],
                           Append(r1.log, <<"calc", mint>>), Ok)

\* as UpdateLsts, going on to the remaining assets after an error
RECURSIVE UpdateLstsAll(_, _, _)
UpdateLstsAll(r, list, am) ==
    IF list = <<>> THEN r
    ELSE LET n == UpdateLst(Step(r.inner, r.log, Ok), Head(list), am)
         IN  UpdateLstsAll(Step(n.inner, n.log, IF r.err.kind # "Ok" THEN r.err ELSE n.err),
                           Tail(list), am)

\* as UpdateLsts, passing over the assets that have no calculator yet
RECURSIVE UpdateLstsKnownOnly(_, _, _)
UpdateLstsKnownOnly(r, list, am) ==
    IF list = <<>> \/ r.err.kind # "Ok" THEN r
    ELSE IF Head(list).mint \notin DOMAIN r.inner.lst_calcs
    THEN UpdateLstsKnownOnly(r, Tail(list), am)
    ELSE UpdateLstsKnownOnly(UpdateLst(r, Head(list), am), Tail(list), am)

\* lib.rs 262-305: try_for_each over the list, stopping at the first error
RECURSIVE UpdateLsts(_, _, _)
UpdateLsts(r, list, am) ==
    IF list = <<>> \/ r.err.kind # "Ok" THEN r
    ELSE UpdateLsts(UpdateLst(r, Head(list), am), Tail(list), am)

\* a stage applied only when every stage before it succeeded
Then(r, F(_)) == IF r.err.kind # "Ok" THEN r ELSE F(r)

\* as Update, the per-asset stage run over the list stored before the call
UpdateOverPreviousList(inn, am) ==
    LET r0 == Step(inn, <<>>, Ok)
        r1 == UpdatePool(r0, am)
        r2 == Then(r1, LAMBDA r : UpdateLstStateList(r, am))
        r3 == Then(r2, LAMBDA r : UpdateLpTokenSupply(r, am))
        r4 == Then(r3, ParseLstStateList)
        r5 == Then(r4, LAMBDA r : UpdatePricingAll(r, am))
    IN  Then(r5, LAMBDA r : UpdateLsts(r, LstStateListOrDefault(inn), am))

\* as Update, the mirror put back as it was when a stage fails
UpdateRolledBack(inn, am) ==
    LET r0 == Step(inn, <<>>, Ok)
        r1 == UpdatePool(r0, am)
        r2 == Then(r1, LAMBDA r : UpdateLstStateList(r, am))
        r3 == Then(r2, LAMBDA r : UpdateLpTokenSupply(r, am))
        r4 == Then(r3, ParseLstStateList)
        r5 == Then(r4, LAMBDA r : UpdatePricingAll(r, am))
        r6 == Then(r5, LAMBDA r : UpdateLsts(r, r.inner.lst_state_list_data.val, am))
    IN  IF r6.err.kind # "Ok" THEN Step(inn, r6.log, r6.err) ELSE r6

\* as Update, the pricing scheme refreshed before the fetched list is stored
UpdatePricingBeforeList(inn, am) ==
    LET r0 == Step(inn, <<>>, Ok)
        r1 == UpdatePool(r0, am)
        r2 == Then(r1, LAMBDA r : UpdatePricingAll(r, am))
        r3 == Then(r2, LAMBDA r : UpdateLstStateList(r, am))
        r4 == Then(r3, LAMBDA r : UpdateLpTokenSupply(r, am))
        r5 == Then(r4, ParseLstStateList)
    IN  Then(r5, LAMBDA r : UpdateLsts(r, r.inner.lst_state_list_data.val, am))

\* InfAmm::update
Update(inn, am) ==
    LET r0 == Step(inn, <<>>, Ok)
        r1 == UpdatePool(r0, am)
        r2 == Then(r1, LAMBDA r : UpdateLstStateList(r, am))
        r3 == Then(r2, LAMBDA r : UpdateLpTokenSupply(r, am))
        r4 == Then(r3, ParseLstStateList)
        r5 == Then(r4, LAMBDA r : UpdatePricingAll(r, am))
    IN  Then(r5, LAMBDA r : UpdateLsts(r, r.inner.lst_state_list_data.val, am))

(* ---------------------------------------------------------------------- *)
(* quote                                                                   *)
(* ---------------------------------------------------------------------- *)

\* clock.rs
is_epoch_affected_lst_mint(mint) ==
    mint \notin {INF_MINT_ADDR, MSOL_MINT_ADDR, WSOL_MINT_ADDR}

QuoteErr(kind, side, backend, mint) ==
    [kind |-> kind, side |-> side, backend |-> backend, mint |-> mint]

GatePass == QuoteErr("Pass", "", "", "")

\* as GateMint, a marker equal to the counter taken as stale
GateMintLe(inn, epoch, mint) ==
    IF ~is_epoch_affected_lst_mint(mint) THEN GatePass
    ELSE IF mint \notin DOMAIN inn.lst_calcs \/ ~inn.lst_calcs[mint].loaded
    THEN QuoteErr("MissingSvcData", "", "", mint)
    ELSE LET c == inn.lst_calcs[mint]
         IN  CASE c.kind \in {"Marinade", "Wsol"} -> GatePass
               [] c.kind = "Lido" ->
                    IF c.epoch <= epoch
                    THEN QuoteErr("NotUpdated", "InpCalc", "Lido", "")
                    ELSE GatePass
               [] OTHER ->
                    IF c.epoch <= epoch
                    THEN QuoteErr("NotUpdated", "InpCalc", "Spl", "")
                    ELSE GatePass

\* as GateMint, a mint without calculator let through
GateMintSkipMissing(inn, epoch, mint) ==
    IF ~is_epoch_affected_lst_mint(mint) THEN GatePass
    ELSE IF mint \notin DOMAIN inn.lst_calcs \/ ~inn.lst_calcs[mint].loaded
    THEN GatePass
    ELSE LET c == inn.lst_calcs[mint]
         IN  CASE c.kind \in {"Marinade", "Wsol"} -> GatePass
               [] c.kind = "Lido" ->
                    IF c.epoch < epoch
                    THEN QuoteErr("NotUpdated", "InpCalc", "Lido", "")
                    ELSE GatePass
               [] OTHER ->
                    IF c.epoch < epoch
                    THEN QuoteErr("NotUpdated", "InpCalc", "Spl", "")
                    ELSE GatePass

\* lib.rs 324-362: the clock special-casing for one mint of the pair
GateMint(inn, epoch, mint) ==
    IF ~is_epoch_affected_lst_mint(mint) THEN GatePass
    ELSE IF mint \notin DOMAIN inn.lst_calcs \/ ~inn.lst_calcs[mint].loaded
    THEN QuoteErr("MissingSvcData", "", "", mint)
    ELSE LET c == inn.lst_calcs[mint]
         IN  CASE c.kind \in {"Marinade", "Wsol"} -> GatePass
               [] c.kind = "Lido" ->
                    IF c.epoch < epoch
                    THEN QuoteErr("NotUpdated", "InpCalc", "Lido", "")
                    ELSE GatePass
               [] OTHER ->
                    IF c.epoch < epoch
                    THEN QuoteErr("NotUpdated", "InpCalc", "Spl", "")
                    ELSE GatePass

\* as Gate, a stale output mint reported as the output-side error
GateSided(inn, epoch, input_mint, output_mint) ==
    LET gi == GateMint(inn, epoch, input_mint)
        go == GateMint(inn, epoch, output_mint)
    IN  IF gi.kind # "Pass" THEN gi
        ELSE IF go.kind = "NotUpdated" THEN [go EXCEPT !.side = "OutCalc"]
        ELSE go

\* as Gate, the output mint checked before the input mint
GateOutputFirst(inn, epoch, input_mint, output_mint) ==
    LET go == GateMint(inn, epoch, output_mint)
    IN  IF go.kind # "Pass" THEN go ELSE GateMint(inn, epoch, input_mint)

\* lib.rs 323-363: the input mint is checked before the output mint
Gate(inn, epoch, input_mint, output_mint) ==
    LET gi == GateMint(inn, epoch, input_mint)
    IN  IF gi.kind # "Pass" THEN gi ELSE GateMint(inn, epoch, output_mint)

SwapModes == {"ExactIn", "ExactOut"}

\* InfAmm::quote up to the call of the trade engine
Quote(inn, epoch, input_mint, output_mint, swap_mode) ==
    LET g == Gate(inn, epoch, input_mint, output_mint)
    IN  IF g.kind # "Pass" THEN g
        ELSE QuoteErr("Engine", "", "", "")

\* u64::MAX at the width of the amounts
U64_MAX == 2 ^ WordBits - 1

\* u64::wrapping_add
wrapping_add(a, b) == (a + b) % (U64_MAX + 1)

\* u64::saturating_add
saturating_add(a, b) == IF a + b > U64_MAX THEN U64_MAX ELSE a + b

\* the f64 quotient of two amounts: infinite or NaN over zero
F64Div(num, den) == [finite |-> den # 0, num |-> num, den |-> den]

\* as FromF64Retain, a quotient that is not finite taken as zero
FromF64OrZero(x) ==
    IF x.finite THEN [some |-> TRUE, num |-> x.num, den |-> x.den]
    ELSE [some |-> TRUE, num |-> 0, den |-> 1]

\* Decimal::from_f64_retain: none for a value that is not finite
FromF64Retain(x) ==
    IF x.finite THEN [some |-> TRUE, num |-> x.num, den |-> x.den]
    ELSE [some |-> FALSE, num |-> 0, den |-> 0]

\* as ToJupQuote, the fee always related to the output amount plus the fee
ToJupQuoteOverOutput(fee_mint, q) ==
    LET fee_amount == saturating_add(q.lp_fee, q.protocol_fee)
        denom == saturating_add(q.out, fee_amount)
        fee_pct == FromF64Retain(F64Div(fee_amount, denom))
    IN  IF ~fee_pct.some THEN [ok |-> FALSE, err |-> "Decimal err"]
        ELSE [ok |-> TRUE,
              in_amount |-> q.inp,
              out_amount |-> q.out,
              fee_amount |-> fee_amount,
              fee_mint |-> fee_mint,
              fee_pct |-> [num |-> fee_pct.num, den |-> fee_pct.den]]

\* to_jup_quote; fee_pct is kept as the quotient it is the decimal of
ToJupQuote(fee_mint, q) ==
    LET fee_amount == saturating_add(q.lp_fee, q.protocol_fee)
        denom == IF fee_mint = q.inp_mint THEN q.inp
                 ELSE saturating_add(q.out, fee_amount)
        fee_pct == FromF64Retain(F64Div(fee_amount, denom))
    IN  IF ~fee_pct.some THEN [ok |-> FALSE, err |-> "Decimal err"]
        ELSE [ok |-> TRUE,
              in_amount |-> q.inp,
              out_amount |-> q.out,
              fee_amount |-> fee_amount,
              fee_mint |-> fee_mint,
              fee_pct |-> [num |-> fee_pct.num, den |-> fee_pct.den]]

\* the amounts the trade engine may answer with
LpFees == {0, 100, U64_MAX}
ProtocolFees == {0, 1, 50, U64_MAX}
InpAmounts == {0, 1, 10000, U64_MAX}
OutAmounts == {0, 10000, U64_MAX - 1, U64_MAX}

\* what quote_trade may answer for a pair: an error, or a trade with its
\* fee mint and amounts
Trades(input_mint, output_mint) ==
    {[ok |-> FALSE, err |-> "SwapQuote"]}
    \cup {[ok |-> TRUE, fee_mint |-> fm,
           q |-> [inp |-> i, out |-> o, lp_fee |-> l, protocol_fee |-> pf,
                  inp_mint |-> input_mint, out_mint |-> output_mint]] :
             fm \in {input_mint, output_mint}, i \in InpAmounts, o \in OutAmounts,
             l \in LpFees, pf \in ProtocolFees}

\* the answer of a trade engine that was not called
NoTrade == [ok |-> FALSE, err |-> "NotCalled"]

\* InfAmm::quote, trade being what quote_trade answers when it is called
QuoteTrade(inn, epoch, input_mint, output_mint, swap_mode, trade) ==
    LET g == Quote(inn, epoch, input_mint, output_mint, swap_mode)
    IN  IF g.kind # "Engine" THEN [kind |-> g.kind, err |-> g]
        ELSE IF ~trade.ok THEN [kind |-> trade.err]
        ELSE LET j == ToJupQuote(trade.fee_mint, trade.q)
             IN  IF j.ok THEN [kind |-> "Ok", quote |-> j] ELSE [kind |-> j.err]

(* ---------------------------------------------------------------------- *)
(* get_swap_and_account_metas                                              *)
(* ---------------------------------------------------------------------- *)

INF_PROGRAM_ID == <<"program", "inf">>
INF_LST_LIST_ID == LST_STATE_LIST_ID

\* InfAmm::key
Key(inn) == INF_LST_LIST_ID
TOKEN_TRANSFER_AUTHORITY == <<"signer", "">>

TradeKinds == {"AddLiquidity", "RemoveLiquidity", "SwapExactIn", "SwapExactOut"}

\* the keys a trade instruction may name
IxKeys == {TOKEN_TRANSFER_AUTHORITY, POOL_STATE_ID, LST_STATE_LIST_ID}

\* what trade_ix may answer: an error, or an instruction of one of the four
\* kinds with its keys and their writer flags in the layout of the kind
TradeIxs ==
    {[ok |-> FALSE, err |-> "TradeIx"]}
    \cup {[ok |-> TRUE, kind |-> k, keys |-> ks, is_writer |-> ws] :
             k \in TradeKinds, ks \in [1..IxAccsLen -> IxKeys],
             ws \in [1..IxAccsLen -> BOOLEAN]}

\* AccountMeta::new_readonly
AccountMetaReadonly(pubkey, is_signer) ==
    [pubkey |-> pubkey, is_signer |-> is_signer, is_writable |-> FALSE]

\* as keys_writable_to_jup_metas, the transfer authority marked as signer
KeysWritableSignerMetas(keys, writable) ==
    [i \in 1..(IF Len(keys) < Len(writable) THEN Len(keys) ELSE Len(writable)) |->
        [pubkey |-> keys[i],
         is_signer |-> keys[i] = TOKEN_TRANSFER_AUTHORITY,
         is_writable |-> writable[i]]]

\* keys_writable_to_jup_metas: the keys zipped with their writable flags
keys_writable_to_jup_metas(keys, writable) ==
    [i \in 1..(IF Len(keys) < Len(writable) THEN Len(keys) ELSE Len(writable)) |->
        [pubkey |-> keys[i], is_signer |-> FALSE, is_writable |-> writable[i]]]

\* the Swap variant of a trade kind
SwapOf(kind) ==
    CASE kind = "AddLiquidity" -> "SanctumSAddLiquidity"
      [] kind = "RemoveLiquidity" -> "SanctumSRemoveLiquidity"
      [] OTHER -> "SanctumS"

SOURCE_TOKEN_ACCOUNT == <<"token_account", "source">>
DESTINATION_TOKEN_ACCOUNT == <<"token_account", "destination">>

\* the SwapParams the host may pass
SwapParamsSet ==
    [swap_mode : SwapModes,
     in_amount : {0, 100},
     out_amount : {0, 99},
     source_mint : {WSOL_MINT_ADDR, INF_MINT_ADDR},
     destination_mint : {WSOL_MINT_ADDR, INF_MINT_ADDR},
     source_token_account : {SOURCE_TOKEN_ACCOUNT},
     destination_token_account : {DESTINATION_TOKEN_ACCOUNT},
     token_transfer_authority : {TOKEN_TRANSFER_AUTHORITY}]

\* swap_mode_to_trade_limit_ty
swap_mode_to_trade_limit_ty(sm) == IF sm = "ExactIn" THEN "ExactIn" ELSE "ExactOut"

\* as TradeIxArgsOf, the input amount the amount and the output amount the
\* limit in either mode
TradeIxArgsAsExactIn(params) ==
    [amt |-> params.in_amount,
     limit |-> params.out_amount,
     mints |-> [inp |-> params.source_mint, out |-> params.destination_mint],
     signer |-> params.token_transfer_authority,
     token_accs |-> [inp |-> params.source_token_account,
                     out |-> params.destination_token_account]]

\* the TradeIxArgs get_swap_and_account_metas hands to trade_ix
TradeIxArgsOf(params) ==
    LET limit_ty == swap_mode_to_trade_limit_ty(params.swap_mode)
    IN  [amt |-> IF limit_ty = "ExactIn" THEN params.in_amount ELSE params.out_amount,
         limit |-> IF limit_ty = "ExactIn" THEN params.out_amount ELSE params.in_amount,
         mints |-> [inp |-> params.source_mint, out |-> params.destination_mint],
         signer |-> params.token_transfer_authority,
         token_accs |-> [inp |-> params.source_token_account,
                         out |-> params.destination_token_account]]

\* InfAmm::get_swap_and_account_metas, ix being what trade_ix answers
GetSwapAndAccountMetas(ix) ==
    IF ~ix.ok THEN [ok |-> FALSE, err |-> ix.err]
    ELSE [ok |-> TRUE,
          swap |-> SwapOf(ix.kind),
          account_metas |-> <<AccountMetaReadonly(INF_PROGRAM_ID, FALSE)>>
                            \o keys_writable_to_jup_metas(ix.keys, ix.is_writer)]

\* the check of a time-bound calculator itself: its data is older than the
\* epoch of the clock data it holds
CalcNotUpdated(calc) == calc.kind \in ClockKinds /\ calc.epoch < calc.current_epoch

(* ---------------------------------------------------------------------- *)
(* The host's calls                                                        *)
(* ---------------------------------------------------------------------- *)

\* the accounts an update over ledger snapshot sc may read
ScenAddrs(sc) ==
    LET list == LstLists[sc.list]
    IN  {POOL_STATE_ID, LST_STATE_LIST_ID, MintAcc(Pools[sc.pool].lp_token_mint)}
        \cup Range(PricingAccountsToUpdateAll(DefaultPricing(Pools[sc.pool].pricing_program),
                                             ListMints(list)))
        \cup {ReservesAcc(list[i].mint) : i \in DOMAIN list}
        \cup UNION {Range(SvcAccountsToUpdate(Calc(list[i].sol_value_calculator, FALSE, 0),
                                              list[i].mint)) \ {SYSVAR_CLOCK}
                    : i \in {j \in DOMAIN list :
                                list[j].sol_value_calculator \in SplKinds
                                    => list[j].mint \in DOMAIN spl_lsts}}

Faults(sc) ==
    {NoFault} \cup [kind : {"missing", "bad"}, addr : ScenAddrs(sc)]

Doms == {"all", "noclock", "requested"}

\* the instance is built from the asset-list account of some ledger snapshot
Init ==
    /\ ledger \in Scens
    /\ ledger.epoch = 0
    /\ New(LstLists[ledger.list]).err.kind = "Ok"
    /\ inner = New(LstLists[ledger.list]).inner
    /\ current_epoch = 0
    /\ ret = Idle
    /\ clone = NoClone

GetAccountsToUpdateCall ==
    /\ ret.op = "idle"
    /\ ret' = [op |-> "get_accounts_to_update", accounts |-> GetAccountsToUpdate(inner)]
    /\ UNCHANGED <<ledger, inner, current_epoch, clone>>

\* update on the ledger's accounts restricted to dom, with fault applied
UpdateWith(dom, fault) ==
    LET am == [scen |-> ledger, dom |-> dom, fault |-> fault,
               req |-> GetAccountsToUpdate(inner)]
        r == Update(inner, am)
    IN  /\ inner' = r.inner
        /\ ret' = [op |-> "update", account_map |-> am, err |-> r.err, log |-> r.log]
        /\ UNCHANGED <<ledger, current_epoch, clone>>

\* update on what the host fetched from the ledger: every account, every
\* account but the clock, or the accounts get_accounts_to_update asked for;
\* or every account with one of them missing or corrupt
UpdateCall ==
    /\ ret.op = "idle"
    /\ \E dom \in Doms, fault \in Faults(ledger) :
          /\ fault.kind # "none" => dom = "all"
          /\ UpdateWith(dom, fault)

\* update on a fetch that went through
UpdateFetched ==
    /\ ret.op = "idle"
    /\ \E dom \in Doms : UpdateWith(dom, NoFault)

QuoteCall ==
    /\ ret.op = "idle"
    /\ \E input_mint \in Mints, output_mint \in Mints, swap_mode \in SwapModes :
          ret' = [op |-> "quote", input_mint |-> input_mint, output_mint |-> output_mint,
                  res |-> Quote(inner, current_epoch, input_mint, output_mint, swap_mode)]
    /\ UNCHANGED <<ledger, inner, current_epoch, clone>>

\* the external clock source moves the shared counter on
ClockAdvance ==
    /\ ret.op = "idle"
    /\ current_epoch < MaxEpoch
    /\ current_epoch' = current_epoch + 1
    /\ UNCHANGED <<ledger, inner, ret, clone>>

\* the ledger moves on: the next pool descriptor or the next asset list
LedgerChange ==
    /\ ret.op = "idle"
    /\ \/ ledger.pool < Len(Pools) /\ ledger' = [ledger EXCEPT !.pool = @ + 1]
       \/ ledger.list < Len(LstLists) /\ ledger' = [ledger EXCEPT !.list = @ + 1]
    /\ UNCHANGED <<inner, current_epoch, ret, clone>>

\* the stake pools on the ledger are updated for one more epoch
StakePoolsUpdated ==
    /\ ret.op = "idle"
    /\ ledger.epoch < MaxEpoch
    /\ ledger' = [ledger EXCEPT !.epoch = @ + 1]
    /\ UNCHANGED <<inner, current_epoch, ret, clone>>

\* the host takes the returned value and goes on to its next call
Return ==
    /\ ret.op # "idle"
    /\ ret' = Idle
    /\ UNCHANGED <<ledger, inner, current_epoch, clone>>

GetReserveMintsCall ==
    /\ ret.op = "idle"
    /\ ret' = [op |-> "get_reserve_mints", mints |-> GetReserveMints(inner)]
    /\ UNCHANGED <<ledger, inner, current_epoch, clone>>

\* the poll / update cycle, with fetches that may fail
Next ==
    \/ GetAccountsToUpdateCall
    \/ GetReserveMintsCall
    \/ UpdateCall
    \/ LedgerChange
    \/ Return

Spec == Init /\ [][Next]_vars

CloneAmmCall ==
    /\ ret.op = "idle"
    /\ ~clone.taken
    /\ clone' = CloneAmm(inner)
    /\ ret' = [op |-> "clone_amm"]
    /\ UNCHANGED <<ledger, inner, current_epoch>>

\* update called on the clone, on the accounts it asked for, as the host
\* fetched them from the ledger
CloneUpdateFetched ==
    /\ ret.op = "idle"
    /\ clone.taken
    /\ \E dom \in {"requested"} :
          LET mine == InnerOf(clone, inner)
              am == [scen |-> ledger, dom |-> dom, fault |-> NoFault,
                     req |-> GetAccountsToUpdate(mine)]
              r == Update(mine, am)
          IN  /\ IF clone.owned
                 THEN clone' = [clone EXCEPT !.inner = r.inner] /\ inner' = inner
                 ELSE inner' = r.inner /\ clone' = clone
              /\ ret' = [op |-> "clone_update", account_map |-> am,
                         err |-> r.err, log |-> r.log]
    /\ UNCHANGED <<ledger, current_epoch>>

\* quote called on the clone
CloneQuoteCall ==
    /\ ret.op = "idle"
    /\ clone.taken
    /\ \E input_mint \in Mints, output_mint \in Mints, swap_mode \in SwapModes :
          ret' = [op |-> "clone_quote", input_mint |-> input_mint,
                  output_mint |-> output_mint,
                  res |-> Quote(InnerOf(clone, inner), CurrentEpochOf(clone, current_epoch),
                                input_mint, output_mint, swap_mode)]
    /\ UNCHANGED <<ledger, inner, current_epoch, clone>>

\* the original and its clone quoting and updating while the clock source
\* moves the counter, over one pool descriptor and asset list
NextCloneQuote ==
    \/ CloneAmmCall
    \/ UpdateFetched
    \/ CloneUpdateFetched
    \/ QuoteCall
    \/ CloneQuoteCall
    \/ ClockAdvance
    \/ StakePoolsUpdated
    \/ Return

SpecCloneQuote == Init /\ [][NextCloneQuote]_vars

\* the original and its clone, each updated on its own schedule
NextClone ==
    \/ CloneAmmCall
    \/ UpdateFetched
    \/ CloneUpdateFetched
    \/ LedgerChange
    \/ Return

SpecClone == Init /\ [][NextClone]_vars

\* quote, with the answer of the trade engine when the call gets that far
QuoteTradeCall ==
    /\ ret.op = "idle"
    /\ \E input_mint \in Mints, output_mint \in Mints, swap_mode \in SwapModes :
          \E trade \in IF Quote(inner, current_epoch, input_mint, output_mint,
                                swap_mode).kind = "Engine"
                        THEN Trades(input_mint, output_mint) ELSE {NoTrade} :
              ret' = [op |-> "quote", input_mint |-> input_mint,
                      output_mint |-> output_mint, trade |-> trade,
                      res |-> QuoteTrade(inner, current_epoch, input_mint,
                                         output_mint, swap_mode, trade)]
    /\ UNCHANGED <<ledger, inner, current_epoch, clone>>

GetSwapAndAccountMetasCall ==
    /\ ret.op = "idle"
    /\ \E params \in SwapParamsSet, ix \in TradeIxs :
          ret' = [op |-> "get_swap_and_account_metas", params |-> params,
                  args |-> TradeIxArgsOf(params),
                  limit_ty |-> swap_mode_to_trade_limit_ty(params.swap_mode),
                  ix |-> ix, res |-> GetSwapAndAccountMetas(ix)]
    /\ UNCHANGED <<ledger, inner, current_epoch, clone>>

\* quotes and swap instructions on the instance as constructed
NextTrade ==
    \/ QuoteTradeCall
    \/ GetSwapAndAccountMetasCall
    \/ Return

SpecTrade == Init /\ [][NextTrade]_vars

\* the host before it has an instance
InitNew ==
    /\ ledger \in Scens
    /\ ledger.epoch = 0
    /\ inner = NoInstance
    /\ current_epoch = 0
    /\ ret = Idle
    /\ clone = NoClone

\* the addresses the host may construct from
KeyedAccountKeys == {LST_STATE_LIST_ID, POOL_STATE_ID, MintAcc(INF_MINT_ADDR)}

\* from_keyed_account on an account with the asset list of the ledger as data
FromKeyedAccountCall ==
    /\ ret.op = "idle"
    /\ inner = NoInstance
    /\ \E key \in KeyedAccountKeys :
          LET r == FromKeyedAccount(key, LstLists[ledger.list])
          IN  /\ inner' = r.inner
              /\ ret' = [op |-> "from_keyed_account", key |-> key, err |-> r.err]
    /\ UNCHANGED <<ledger, current_epoch, clone>>

KeyCall ==
    /\ ret.op = "idle"
    /\ inner # NoInstance
    /\ ret' = [op |-> "key", res |-> Key(inner)]
    /\ UNCHANGED <<ledger, inner, current_epoch, clone>>

\* construction, then the poll / update cycle on the instance
NextNew ==
    \/ FromKeyedAccountCall
    \/ KeyCall
    \/ inner # NoInstance /\ GetAccountsToUpdateCall
    \/ inner # NoInstance /\ UpdateFetched
    \/ LedgerChange
    \/ Return

SpecNew == InitNew /\ [][NextNew]_vars

\* the update / quote cycle
NextQuote ==
    \/ UpdateFetched
    \/ QuoteCall
    \/ ClockAdvance
    \/ LedgerChange
    \/ StakePoolsUpdated
    \/ Return

SpecQuote == Init /\ [][NextQuote]_vars

(* ---------------------------------------------------------------------- *)
(* Properties                                                              *)
(* ---------------------------------------------------------------------- *)

\* the listed assets that hold a calculator of a time-bound backend
ClockBoundListed(inn) ==
    {l \in Range(LstStateListOrDefault(inn)) :
        /\ l.mint \in DOMAIN inn.lst_calcs
        /\ inn.lst_calcs[l.mint].kind \in ClockKinds}

C2_FixedAccountsToUpdate ==
    /\ {POOL_STATE_ID, LST_STATE_LIST_ID, MintAcc(inner.pool.lp_token_mint)}
          \subseteq Range(GetAccountsToUpdate(inner))
    /\ ret.op = "get_accounts_to_update" =>
          {POOL_STATE_ID, LST_STATE_LIST_ID, MintAcc(inner.pool.lp_token_mint)}
              \subseteq Range(ret.accounts)

\* get_accounts_to_update has returned after an update stored a pool
\* descriptor with another LP mint
C2_Witness ==
    /\ ret.op = "get_accounts_to_update"
    /\ inner.pool.lp_token_mint = ALT_LP_MINT
    /\ MintAcc(ALT_LP_MINT) \in Range(ret.accounts)

\* the accounts update reads from a fetched map am whose pool descriptor and
\* asset list are valid: the three fixed accounts, the pricing accounts and,
\* for each listed asset, its reserves and its calculator's accounts
UpdateReads(am) ==
    LET pool == AmVal(am, POOL_STATE_ID)
        list == AmVal(am, LST_STATE_LIST_ID)
    IN  {POOL_STATE_ID, LST_STATE_LIST_ID, MintAcc(pool.lp_token_mint)}
        \cup Range(PricingAccountsToUpdateAll(DefaultPricing(pool.pricing_program),
                                              ListMints(list)))
        \cup {ReservesAcc(l.mint) : l \in Range(list)}
        \cup UNION {Range(SvcAccountsToUpdate(Calc(l.sol_value_calculator, FALSE, 0), l.mint))
                    : l \in {x \in Range(list) :
                                x.sol_value_calculator \in SplKinds
                                    => x.mint \in DOMAIN spl_lsts}}

\* the fetched map holds valid bytes for every account update reads other
\* than the clock, the asset list naming known calculator programs only
CompleteButClock(am) ==
    /\ AmHas(am, POOL_STATE_ID) /\ ~AmBad(am, POOL_STATE_ID)
    /\ AmHas(am, LST_STATE_LIST_ID) /\ ~AmBad(am, LST_STATE_LIST_ID)
    /\ \A l \in Range(AmVal(am, LST_STATE_LIST_ID)) : l.sol_value_calculator \in SvcKinds
    /\ \A a \in UpdateReads(am) \ {SYSVAR_CLOCK} : AmHas(am, a) /\ ~AmBad(am, a)

\* C3: update never requires the clock account: when the fetched map holds
\* valid bytes for every other account update reads and the clock is absent
\* from it, update succeeds, for time-bound and time-independent calculators
\* alike; and no update fails on the clock account.
C3_UpdateNeedsNoClock ==
    ret.op = "update" =>
        /\ ret.err.at # SYSVAR_CLOCK
        /\ (~AmHas(ret.account_map, SYSVAR_CLOCK) /\ CompleteButClock(ret.account_map))
              => ret.err.kind = "Ok"

\* an update without the clock has refreshed a Lido calculator, a calculator
\* of the spl family and a Marinade calculator
C3_Witness ==
    /\ ret.op = "update"
    /\ ~AmHas(ret.account_map, SYSVAR_CLOCK)
    /\ ret.err.kind = "Ok"
    /\ \E l \in ClockBoundListed(inner) :
          /\ inner.lst_calcs[l.mint].kind = "Lido"
          /\ inner.lst_calcs[l.mint].loaded
          /\ <<"calc", l.mint>> \in Range(ret.log)


(* quote *)

HasCalcData(inn, mint) == mint \in DOMAIN inn.lst_calcs /\ inn.lst_calcs[mint].loaded

\* an epoch-affected mint whose time-bound calculator is behind the counter
StaleMint(mint) ==
    /\ is_epoch_affected_lst_mint(mint)
    /\ HasCalcData(inner, mint)
    /\ inner.lst_calcs[mint].kind \in ClockKinds
    /\ inner.lst_calcs[mint].epoch < current_epoch

\* an epoch-affected mint whose time-bound calculator is not behind the counter
FreshMint(mint) ==
    /\ is_epoch_affected_lst_mint(mint)
    /\ HasCalcData(inner, mint)
    /\ inner.lst_calcs[mint].kind \in ClockKinds
    /\ inner.lst_calcs[mint].epoch >= current_epoch

\* an epoch-affected mint without calculator data
MissingMint(mint) == is_epoch_affected_lst_mint(mint) /\ ~HasCalcData(inner, mint)

\* a mint the gate has nothing against
PassingMint(mint) == ~StaleMint(mint) /\ ~MissingMint(mint)

\* C4 as stated: for an epoch-affected mint with a calculator whose marker is
\* behind the counter, every quote with that mint as input or output fails
\* with the stale-calculator error; with the marker at or past the counter
\* the quote proceeds to the trade engine.
C4_AsStated ==
    ret.op = "quote" =>
        /\ (StaleMint(ret.input_mint) \/ StaleMint(ret.output_mint))
              => ret.res.kind = "NotUpdated"
        /\ (FreshMint(ret.input_mint) /\ FreshMint(ret.output_mint))
              => ret.res.kind = "Engine"

\* C4: for an epoch-affected mint with a calculator whose marker is behind
\* the counter, every quote with that mint as input or output fails at the
\* gate: with the stale-calculator error when the mint is the input, or is
\* the output and the input mint passes the gate, and with the input mint's
\* own gate error otherwise.  A mint whose marker is at or past the counter
\* passes, and the quote reaches the trade engine when the other mint
\* passes too.
C4_StaleGate ==
    ret.op = "quote" =>
        /\ StaleMint(ret.input_mint) => ret.res.kind = "NotUpdated"
        /\ (StaleMint(ret.output_mint) /\ PassingMint(ret.input_mint))
              => ret.res.kind = "NotUpdated"
        /\ (StaleMint(ret.output_mint) /\ MissingMint(ret.input_mint))
              => ret.res.kind = "MissingSvcData" /\ ret.res.mint = ret.input_mint
        /\ (FreshMint(ret.input_mint) /\ PassingMint(ret.output_mint))
              => ret.res.kind = "Engine"
        /\ (PassingMint(ret.input_mint) /\ FreshMint(ret.output_mint))
              => ret.res.kind = "Engine"

\* a quote has failed on a stale output mint behind a passing epoch-affected
\* input mint
C4_Witness ==
    /\ ret.op = "quote"
    /\ StaleMint(ret.output_mint)
    /\ is_epoch_affected_lst_mint(ret.input_mint)
    /\ PassingMint(ret.input_mint)
    /\ ret.res.kind = "NotUpdated"

C6_AsStated ==
    ret.op = "quote" =>
        \A mint \in {ret.input_mint, ret.output_mint} :
            (is_epoch_affected_lst_mint(mint) /\ mint \notin DOMAIN inner.lst_calcs)
                => ret.res.kind = "MissingSvcData" /\ ret.res.mint = mint

\* C6: a quote with an epoch-affected mint that has no calculator never
\* reaches the trade engine; it fails with MissingSvcData for that mint when
\* the mint is the input, or is the output and the input mint passes the
\* gate, and with the input mint's own gate error otherwise.
C6_MissingCalculator ==
    ret.op = "quote" =>
        \A mint \in {ret.input_mint, ret.output_mint} :
            (is_epoch_affected_lst_mint(mint) /\ mint \notin DOMAIN inner.lst_calcs)
                => /\ ret.res.kind # "Engine"
                   /\ (mint = ret.input_mint \/ PassingMint(ret.input_mint))
                         => ret.res.kind = "MissingSvcData" /\ ret.res.mint = mint
                   /\ StaleMint(ret.input_mint) => ret.res.kind = "NotUpdated"
                   /\ MissingMint(ret.input_mint)
                         => ret.res.kind = "MissingSvcData" /\ ret.res.mint = ret.input_mint

\* a quote has failed on an output mint without calculator behind a passing
\* epoch-affected input mint
C6_Witness ==
    /\ ret.op = "quote"
    /\ ret.output_mint \notin DOMAIN inner.lst_calcs
    /\ is_epoch_affected_lst_mint(ret.input_mint)
    /\ PassingMint(ret.input_mint)
    /\ ret.res.kind = "MissingSvcData"
    /\ ret.res.mint = ret.output_mint

\* the mint whose calculator a failed quote found stale
StaleFound == IF StaleMint(ret.input_mint) THEN ret.input_mint ELSE ret.output_mint

\* C7: the stale-calculator error of quote names the backend of the
\* calculator that was found stale: Lido, Spl, SanctumSpl or SanctumSplMulti.
C7_StaleNamesBackend ==
    (ret.op = "quote" /\ ret.res.kind = "NotUpdated")
        => ret.res.backend = inner.lst_calcs[StaleFound].kind

\* C8: a stale-calculator failure is reported as the input-side calculation
\* error, whether the stale mint is the input or the output and whatever
\* the swap mode.
C8_StaleIsInpCalc ==
    ret.op = "quote" =>
        \A swap_mode \in SwapModes :
            LET q == Quote(inner, current_epoch, ret.input_mint, ret.output_mint, swap_mode)
            IN  /\ q = ret.res
                /\ (StaleMint(ret.input_mint)
                      \/ (PassingMint(ret.input_mint) /\ StaleMint(ret.output_mint)))
                     => q.kind = "NotUpdated" /\ q.side = "InpCalc"
                /\ q.kind = "NotUpdated" => q.side = "InpCalc"

\* a quote has failed on a stale output mint
C8_Witness ==
    /\ ret.op = "quote"
    /\ PassingMint(ret.input_mint)
    /\ StaleMint(ret.output_mint)
    /\ ret.res.kind = "NotUpdated"
    /\ ret.res.side = "InpCalc"

\* C9: staleness is detected only at quote time.  update does not depend on
\* the shared epoch counter and never fails because a marker is behind it:
\* an update on a complete fetch succeeds and loads the ledger's markers
\* even when they are behind the counter, and a quote on such a mint then
\* returns the stale error.
C9_StaleOnlyAtQuote ==
    ret.op = "update" =>
        /\ ret.err.kind \in {"Ok", "AccMissing", "AccDeser", "UnknownSvc"}
        /\ CompleteButClock(ret.account_map) => ret.err.kind = "Ok"
        /\ ret.err.kind = "Ok" =>
              \A l \in ClockBoundListed(inner) :
                  /\ inner.lst_calcs[l.mint].loaded
                  /\ inner.lst_calcs[l.mint].epoch = ledger.epoch
                  /\ (is_epoch_affected_lst_mint(l.mint) /\ ledger.epoch < current_epoch)
                        => \A output_mint \in Mints, swap_mode \in SwapModes :
                              Quote(inner, current_epoch, l.mint, output_mint, swap_mode).kind
                                  = "NotUpdated"

\* an update has succeeded on stake-pool data behind the counter
C9_Witness ==
    /\ ret.op = "update"
    /\ ret.err.kind = "Ok"
    /\ ledger.epoch < current_epoch
    /\ \E l \in ClockBoundListed(inner) :
          /\ is_epoch_affected_lst_mint(l.mint)
          /\ <<"calc", l.mint>> \in Range(ret.log)


(* the order of update's stages *)

\* the stages of a complete update over list, in the order of the code
StageSeq(list) ==
    << <<"pool", "">>, <<"lst_state_list", "">>, <<"lp_token_supply", "">>, <<"pricing", "">> >>
    \o SeqCat(SeqMap(LAMBDA l : << <<"reserves", l.mint>>, <<"calc", l.mint>> >>, list))

\* the stages a log records, a calculator dropped for missing spl data
\* counted as that asset's calculator stage
NormLog(log) ==
    SeqMap(LAMBDA e : IF e[1] = "calc_removed" THEN <<"calc", e[2]>> ELSE e, log)

IsPrefix(s, t) == Len(s) <= Len(t) /\ \A i \in DOMAIN s : s[i] = t[i]

MapAt(m, k) == IF k \in DOMAIN m THEN <<TRUE, m[k]>> ELSE <<FALSE, 0>>

\* what a call of update from mirror inn, ending in mirror out with log and
\* err, has to satisfy: the stages applied are a prefix of the fixed order,
\* all of them exactly when update succeeds, and nothing that belongs to a
\* stage after the failing one has changed
UpdateInOrder(inn, out, log, err) ==
    LET list == LstStateListOrDefault(out)
        all == StageSeq(list)
        n == Len(log)
    IN  /\ IsPrefix(NormLog(log), all)
        /\ err.kind = "Ok" <=> ~out.lst_state_list_data.bad /\ n = Len(all)
        /\ n = 0 => out = inn
        /\ n <= 1 => out.lp_token_supply = inn.lp_token_supply
        /\ n <= 2 => out.pricing = IF out.pool.pricing_program # inn.pool.pricing_program
                                   THEN DefaultPricing(out.pool.pricing_program)
                                   ELSE inn.pricing
        /\ \A i \in DOMAIN list :
              /\ 4 + 2 * i - 1 > n + 1 =>
                    MapAt(out.lst_reserves, list[i].mint) = MapAt(inn.lst_reserves, list[i].mint)
              /\ 4 + 2 * i > n + 1 =>
                    MapAt(out.lst_calcs, list[i].mint) = MapAt(inn.lst_calcs, list[i].mint)

\* C10: update applies its stages in the fixed order pool descriptor, asset
\* list, LP token supply, pricing scheme, then each asset of the new list in
\* list order; when a stage fails no later stage and no later asset is
\* applied in that call.
C10_UpdateStagesInOrder ==
    [][(ret.op = "idle" /\ ret'.op = "update")
          => UpdateInOrder(inner, inner', ret'.log, ret'.err)]_vars

\* an update has failed on the second asset of the list after applying the
\* first one
C10_Witness ==
    /\ ret.op = "update"
    /\ ret.err.kind # "Ok"
    /\ Len(ret.log) = 6
    /\ Len(LstStateListOrDefault(inner)) = 3


(* failures of update *)

\* C11: when the fetched map lacks, or holds undeserializable bytes for, the
\* pool descriptor, the asset list or the LP-supply account, update returns
\* AccMissing or AccDeser naming that account and goes no further: no stage
\* after the one that failed is applied.
C11_CoreAccountErrors ==
    ret.op = "update" =>
        LET am == ret.account_map
            pool_err == AccErr(am, POOL_STATE_ID)
            lp == MintAcc(AmVal(am, POOL_STATE_ID).lp_token_mint)
        IN  /\ pool_err.kind # "Ok" => ret.err = pool_err /\ ret.log = <<>>
            /\ (pool_err.kind = "Ok" /\ ~AmHas(am, LST_STATE_LIST_ID))
                  => ret.err = Err("AccMissing", LST_STATE_LIST_ID) /\ Len(ret.log) = 1
            /\ (pool_err.kind = "Ok" /\ AmHas(am, LST_STATE_LIST_ID)
                    /\ AccErr(am, lp).kind # "Ok")
                  => ret.err = AccErr(am, lp) /\ Len(ret.log) = 2
            /\ (pool_err.kind = "Ok" /\ AmHas(am, LST_STATE_LIST_ID)
                    /\ AmBad(am, LST_STATE_LIST_ID) /\ AccErr(am, lp).kind = "Ok")
                  => ret.err = Err("AccDeser", LST_STATE_LIST_ID) /\ Len(ret.log) = 3

\* an update has failed on the LP mint account missing from the fetched map,
\* after storing the pool descriptor and the asset list
C11_Witness ==
    /\ ret.op = "update"
    /\ ret.account_map.fault = [kind |-> "missing", addr |-> MintAcc(inner.pool.lp_token_mint)]
    /\ ret.err = Err("AccMissing", MintAcc(inner.pool.lp_token_mint))
    /\ Len(ret.log) = 2

\* a stage of an update from mirror inn to mirror out has either applied the
\* fetched bytes in full or left what it governs as it was; the pricing state
\* may also be the empty state of the pricing program of the pool just stored
StagesAtomic(inn, out, am, log) ==
    /\ \/ out.pool = inn.pool
       \/ <<"pool", "">> \in Range(log) /\ out.pool = AmVal(am, POOL_STATE_ID)
    /\ \/ out.lst_state_list_data = inn.lst_state_list_data
       \/ <<"lst_state_list", "">> \in Range(log)
    /\ \/ out.lp_token_supply = inn.lp_token_supply
       \/ <<"lp_token_supply", "">> \in Range(log)
    /\ \/ out.pricing = inn.pricing
       \/ out.pricing = DefaultPricing(out.pool.pricing_program)
       \/ <<"pricing", "">> \in Range(log)
    /\ \A mint \in Mints :
          /\ \/ MapAt(out.lst_reserves, mint) = MapAt(inn.lst_reserves, mint)
             \/ /\ <<"reserves", mint>> \in Range(log)
                /\ MapAt(out.lst_reserves, mint) = <<TRUE, AmVal(am, ReservesAcc(mint))>>
          /\ \/ MapAt(out.lst_calcs, mint) = MapAt(inn.lst_calcs, mint)
             \/ <<"calc", mint>> \in Range(log) /\ out.lst_calcs[mint].loaded
             \/ <<"calc_removed", mint>> \in Range(log) /\ mint \notin DOMAIN out.lst_calcs

\* C12: when update returns an error no partial mutation is visible: each
\* stage (pool descriptor, asset list, LP supply, pricing scheme, per-asset
\* reserves and calculators) has fully applied the fetched bytes or retains
\* the state it had before the call.
C12_NoPartialMutation ==
    [][(ret.op = "idle" /\ ret'.op = "update" /\ ret'.err.kind # "Ok")
          => StagesAtomic(inner, inner', ret'.account_map, ret'.log)]_vars

\* an asset of the spl family the instance holds no stake pool address for
LacksSplData(lst_state) ==
    lst_state.sol_value_calculator \in SplKinds /\ lst_state.mint \notin DOMAIN spl_lsts

\* C13: tolerant policy.  When update reaches an asset whose calculator
\* cannot be created for lack of spl data, the asset has no calculator in
\* the registry afterwards, whether it had one before or not; update does
\* not return that error, goes on to the next asset of the list, and
\* succeeds when every other account is valid.
C13_TolerantPolicy ==
    ret.op = "update" =>
        LET list == LstStateListOrDefault(inner)
        IN  /\ ret.err.kind # "MissingSplData"
            /\ \A i \in DOMAIN list :
                  (Len(ret.log) >= 4 /\ LacksSplData(list[i])
                      /\ <<"reserves", list[i].mint>> \in Range(ret.log))
                  => /\ list[i].mint \notin DOMAIN inner.lst_calcs
                     /\ <<"calc_removed", list[i].mint>> \in Range(ret.log)
                     /\ i < Len(list) =>
                           \/ <<"reserves", list[i + 1].mint>> \in Range(ret.log)
                           \/ /\ ret.err.kind # "Ok"
                              /\ ret.err = AccErr(ret.account_map, ReservesAcc(list[i + 1].mint))
                     /\ CompleteButClock(ret.account_map) => ret.err.kind = "Ok"

\* an update has succeeded after dropping the calculator NOSPL had before
\* the call and refreshing the calculators of the assets listed after it
C13_Witness ==
    /\ ret.op = "update"
    /\ ret.err.kind = "Ok"
    /\ ReservesAcc(NOSPL_MINT) \in Range(ret.account_map.req)
    /\ <<"calc_removed", NOSPL_MINT>> \in Range(ret.log)
    /\ NOSPL_MINT \notin DOMAIN inner.lst_calcs
    /\ <<"calc", STSOL_MINT_ADDR>> \in Range(ret.log)

\* the error update has to return for asset lst_state on fetched map am: the
\* reserves account, then the calculator program, then the calculator's
\* accounts without the clock; Ok when the asset raises none, missing spl
\* data included
LstErr(am, lst_state) ==
    LET mint == lst_state.mint
        kind == lst_state.sol_value_calculator
        re == AccErr(am, ReservesAcc(mint))
    IN  IF re.kind # "Ok" THEN re
        ELSE IF kind \notin SvcKinds THEN Err("UnknownSvc", <<"svc", kind>>)
        ELSE IF LacksSplData(lst_state) THEN Ok
        ELSE FirstAccErr(am, SeqFilter(LAMBDA pk : pk # SYSVAR_CLOCK,
                                       SvcAccountsToUpdate(Calc(kind, FALSE, 0), mint)))

\* C14: a per-asset error other than missing spl data (reserves account
\* missing or undeserializable, calculator account missing or
\* undeserializable, unknown calculator program) makes update return that
\* error, and no asset listed after the failing one is processed.
C14_PerAssetErrorAborts ==
    (ret.op = "update" /\ Len(ret.log) >= 4) =>
        LET list == LstStateListOrDefault(inner)
            am == ret.account_map
        IN  \A i \in DOMAIN list :
                (LstErr(am, list[i]).kind # "Ok"
                    /\ \A j \in 1..(i - 1) : LstErr(am, list[j]).kind = "Ok")
                => /\ ret.err = LstErr(am, list[i])
                   /\ \A j \in (i + 1)..Len(list) :
                         /\ <<"reserves", list[j].mint>> \notin Range(ret.log)
                         /\ <<"calc", list[j].mint>> \notin Range(ret.log)
                         /\ <<"calc_removed", list[j].mint>> \notin Range(ret.log)

\* an update has failed on an unknown calculator program after refreshing
\* the asset before it, leaving the asset after it alone
C14_Witness ==
    /\ ret.op = "update"
    /\ ret.err = Err("UnknownSvc", <<"svc", UNKNOWN_SVC>>)
    /\ <<"calc", NOSPL_MINT>> \in Range(ret.log)
    /\ <<"reserves", STSOL_MINT_ADDR>> \in Range(ret.log)
    /\ <<"reserves", JUPSOL_MINT>> \notin Range(ret.log)


(* assets without a calculator *)

\* the per-asset accounts of mint
LstAccs(mint) == {ReservesAcc(mint), StakePoolAcc(mint)}

\* in every state an asset dropped by the last update for lack of spl data
\* is out of the registry, and a listed asset out of the registry adds none
\* of its accounts to what get_accounts_to_update returns
AbsentContributesNothing ==
    /\ ret.op = "update" =>
          \A mint \in Mints :
              <<"calc_removed", mint>> \in Range(ret.log) => mint \notin DOMAIN inner.lst_calcs
    /\ \A l \in Range(LstStateListOrDefault(inner)) :
          l.mint \notin DOMAIN inner.lst_calcs =>
              /\ LstAccountsNoClock(inner, l) = <<>>
              /\ Range(GetAccountsToUpdate(inner)) \cap LstAccs(l.mint) = {}
              /\ ret.op = "get_accounts_to_update"
                    => Range(ret.accounts) \cap LstAccs(l.mint) = {}

\* a mint enters the registry only in an update whose stored list names it
\* with a calculator program that can be created
CreatedOnlyByUpdate ==
    \A mint \in Mints :
        (mint \notin DOMAIN inner.lst_calcs /\ mint \in DOMAIN inner'.lst_calcs)
        => /\ ret'.op = "update"
           /\ \E l \in Range(LstStateListOrDefault(inner')) :
                 /\ l.mint = mint
                 /\ l.sol_value_calculator \in SvcKinds
                 /\ ~LacksSplData(l)
                 /\ inner'.lst_calcs[mint].kind = l.sol_value_calculator

\* C15: an asset whose calculator could not be created for lack of spl data
\* during an update is absent from the registry after that update, adds no
\* per-asset address to the next get_accounts_to_update, and stays absent
\* until a later update creates its calculator.
C15_AbsentUntilRecreated ==
    []AbsentContributesNothing /\ [][CreatedOnlyByUpdate]_vars

\* get_accounts_to_update has returned without the accounts of NOSPL, which
\* an update processed and left without calculator
C15_Witness ==
    /\ ret.op = "get_accounts_to_update"
    /\ \E l \in Range(LstStateListOrDefault(inner)) : l.mint = NOSPL_MINT /\ LacksSplData(l)
    /\ NOSPL_MINT \in DOMAIN inner.lst_reserves
    /\ NOSPL_MINT \notin DOMAIN inner.lst_calcs
    /\ ReservesAcc(NOSPL_MINT) \notin Range(ret.accounts)
    /\ ReservesAcc(JUPSOL_MINT) \in Range(ret.accounts)


(* update cycles *)

\* C16: update is idempotent on the pool descriptor, the asset list and the
\* calculator registry: applying the fetched map of the update just made a
\* second time leaves the three as the first application left them, and
\* returns what the first returned.
C16_UpdateIdempotent ==
    ret.op = "update" =>
        LET again == Update(inner, ret.account_map)
        IN  /\ again.inner.pool = inner.pool
            /\ again.inner.lst_state_list_data = inner.lst_state_list_data
            /\ again.inner.lst_calcs = inner.lst_calcs
            /\ again.err = ret.err

\* an update has stored another pool descriptor and another asset list and
\* has created and refreshed a calculator
C16_Witness ==
    /\ ret.op = "update"
    /\ ret.err.kind = "Ok"
    /\ inner.pool.lp_token_mint = Pools[2].lp_token_mint
    /\ inner.lst_state_list_data.val = LstLists[2]
    /\ WSOL_MINT_ADDR \in DOMAIN inner.lst_calcs
    /\ <<"calc", STSOL_MINT_ADDR>> \in Range(ret.log)
    /\ ReservesAcc(STSOL_MINT_ADDR) \notin Range(ret.account_map.req)

\* what the host fetches for mirror inn on ledger snapshot sc: the requested
\* accounts that exist
CycleMap(sc, inn) ==
    [scen |-> sc, dom |-> "requested", fault |-> NoFault, req |-> GetAccountsToUpdate(inn)]

\* the update just made is the second of two cycles run from construction on
\* the ledger's asset list, the ledger unchanged since
SecondCycleFromNew ==
    /\ ret.op = "update"
    /\ New(LstLists[ledger.list]).err.kind = "Ok"
    /\ LET first == Update(New(LstLists[ledger.list]).inner,
                           CycleMap(ledger, New(LstLists[ledger.list]).inner))
       IN  /\ ret.account_map = CycleMap(ledger, first.inner)
           /\ inner = Update(first.inner, ret.account_map).inner

\* C17: steady state within two cycles.  From construction on a valid asset
\* list, each cycle fetching the requested accounts that exist on the
\* ledger, the second update succeeds whether the first did or not, the
\* clock account never being fetched.
C17_SteadyAfterTwoCycles ==
    SecondCycleFromNew =>
        /\ ~AmHas(ret.account_map, SYSVAR_CLOCK)
        /\ ret.err.kind = "Ok"

\* the calculator program of lst_state is known, its stake pool address is
\* known where it needs one, and the ledger holds its reserves account and
\* the accounts its calculator is refreshed from
DataAvailable(lst_state) ==
    /\ lst_state.sol_value_calculator \in SvcKinds
    /\ ~LacksSplData(lst_state)
    /\ \A a \in {ReservesAcc(lst_state.mint)}
                 \cup Range(SvcAccountsToUpdate(Calc(lst_state.sol_value_calculator, FALSE, 0),
                                                lst_state.mint)) :
          LedgerHas(ledger, a)

\* the update just made was on the requested accounts of the present ledger
\* and a further cycle on that ledger would leave the mirror as it is
SteadyCycle ==
    /\ ret.op = "update"
    /\ ret.account_map.dom = "requested"
    /\ ret.account_map.scen = ledger
    /\ inner.lst_state_list_data = [bad |-> FALSE, val |-> LstLists[ledger.list]]
    /\ Update(inner, CycleMap(ledger, inner)).inner = inner

\* C19: lazy creation.  A listed asset without calculator whose data is
\* available is given one by the update cycles that follow and is never
\* left without calculator for good: once the cycles on the requested
\* accounts change nothing any more, every asset of a list whose assets all
\* have their data available holds a calculator.
C19_LazyCreation ==
    (SteadyCycle /\ \A l \in Range(LstLists[ledger.list]) : DataAvailable(l))
        => \A l \in Range(LstLists[ledger.list]) : l.mint \in DOMAIN inner.lst_calcs


(* the per-asset part of get_accounts_to_update *)

\* what get_accounts_to_update returned after the three fixed accounts and
\* the pricing accounts
PerAssetPart(accounts, inn) ==
    LET n == 3 + Len(PricingAccountsToUpdateAll(inn.pricing,
                                                ListMints(LstStateListOrDefault(inn))))
    IN  SubSeq(accounts, n + 1, Len(accounts))

\* the accounts the calculator of lst_state is refreshed from, less the clock
CalcAccsNoClock(inn, lst_state) ==
    SeqFilter(LAMBDA pk : pk # SYSVAR_CLOCK,
              SvcAccountsToUpdate(inn.lst_calcs[lst_state.mint], lst_state.mint))

\* C20 as stated: each listed asset whose calculator exists contributes
\* exactly that calculator's backend-specific accounts less the clock, and
\* each listed asset without calculator contributes nothing.
C20_AsStated ==
    ret.op = "get_accounts_to_update" =>
        PerAssetPart(ret.accounts, inner) =
            SeqCat(SeqMap(LAMBDA l : IF l.mint \in DOMAIN inner.lst_calcs
                                     THEN CalcAccsNoClock(inner, l)
                                     ELSE <<>>,
                          LstStateListOrDefault(inner)))

\* C20: in list order, each listed asset whose calculator exists contributes
\* exactly that calculator's backend-specific accounts less the clock,
\* followed by the asset's reserves account; each listed asset without
\* calculator contributes nothing, and the call returns all the same.
C20_PerAssetAccounts ==
    ret.op = "get_accounts_to_update" =>
        /\ PerAssetPart(ret.accounts, inner) =
              SeqCat(SeqMap(LAMBDA l : IF l.mint \in DOMAIN inner.lst_calcs
                                       THEN CalcAccsNoClock(inner, l)
                                            \o <<ReservesAcc(l.mint)>>
                                       ELSE <<>>,
                            LstStateListOrDefault(inner)))
        /\ SubSeq(ret.accounts, 1, 3)
              = <<POOL_STATE_ID, LST_STATE_LIST_ID, MintAcc(inner.pool.lp_token_mint)>>

\* get_accounts_to_update has returned for a list with an asset without
\* calculator followed by assets with a stake-pool and a Marinade calculator
C20_Witness ==
    /\ ret.op = "get_accounts_to_update"
    /\ inner.lst_state_list_data.val = LstLists[2]
    /\ NOSPL_MINT \notin DOMAIN inner.lst_calcs
    /\ PerAssetPart(ret.accounts, inner)
          = <<StakePoolAcc(JUPSOL_MINT), ReservesAcc(JUPSOL_MINT),
              MARINADE_STATE, ReservesAcc(STSOL_MINT_ADDR)>>

\* the number of times a occurs in s
Count(a, s) == Cardinality({i \in DOMAIN s : s[i] = a})

\* C21: get_accounts_to_update does not deduplicate.  Its output is the
\* three fixed addresses, then the pricing scheme's addresses over every
\* mint of the list, then the per-asset addresses in list order, and an
\* address that several of these produce occurs once per production.
C21_NoDedup ==
    ret.op = "get_accounts_to_update" =>
        LET list == LstStateListOrDefault(inner)
            fixed == <<POOL_STATE_ID, LST_STATE_LIST_ID, MintAcc(inner.pool.lp_token_mint)>>
            pricing == IF inner.pricing.kind = "FlatFee"
                       THEN <<FLATFEE_STATE>> \o [i \in DOMAIN list |-> FeeAcc(list[i].mint)]
                       ELSE <<FLATSLAB_SLAB>>
            lido == {i \in DOMAIN list :
                        /\ list[i].mint \in DOMAIN inner.lst_calcs
                        /\ inner.lst_calcs[list[i].mint].kind = "Lido"}
        IN  /\ SubSeq(ret.accounts, 1, 3 + Len(pricing)) = fixed \o pricing
            /\ Count(LIDO_STATE, ret.accounts) = Cardinality(lido)
            /\ Len(ret.accounts)
                  = 3 + Len(pricing) + Len(PerAssetPart(ret.accounts, inner))

\* get_accounts_to_update has returned the Lido state account twice, for two
\* listed assets with a Lido calculator
C21_Witness ==
    /\ ret.op = "get_accounts_to_update"
    /\ Count(LIDO_STATE, ret.accounts) = 2

(* registry *)

\* an update leaves a calculator it found under its mint, of the backend the
\* list names, either as it was or refreshed from the fetched accounts
RefreshedNotRecreated ==
    \A mint \in Mints :
        (/\ ret'.op = "update"
         /\ mint \in DOMAIN inner.lst_calcs
         /\ mint \in DOMAIN inner'.lst_calcs
         /\ inner'.lst_calcs[mint].kind = inner.lst_calcs[mint].kind)
        => \/ inner'.lst_calcs[mint] = inner.lst_calcs[mint]
           \/ /\ <<"calc", mint>> \in Range(ret'.log)
              /\ inner'.lst_calcs[mint].loaded

C23_ListAndRegistryAgree ==
    (ret.op = "update" /\ ret.err.kind = "Ok") =>
        \A l \in Range(LstStateListOrDefault(inner)) :
            IF LacksSplData(l)
            THEN l.mint \notin DOMAIN inner.lst_calcs
            ELSE /\ l.mint \in DOMAIN inner.lst_calcs
                 /\ inner.lst_calcs[l.mint].loaded

\* a successful update over a list with a newly listed asset, which now has
\* a calculator, and an asset without spl data, which has none
C23_Witness ==
    /\ ret.op = "update"
    /\ ret.err.kind = "Ok"
    /\ ReservesAcc(STSOL_MINT_ADDR) \notin Range(ret.account_map.req)
    /\ STSOL_MINT_ADDR \in DOMAIN inner.lst_calcs
    /\ \E l \in Range(LstStateListOrDefault(inner)) : LacksSplData(l)

(* clone *)

\* the pool descriptor, asset list, pricing scheme and calculator registry
OwnedState(inn) == <<inn.pool, inn.lst_state_list_data, inn.pricing, inn.lst_calcs>>

\* an update of the one instance leaves the owned state of the other as it was
UpdateLeavesOtherAlone ==
    (clone.taken /\ clone'.taken) =>
        /\ ret'.op = "update"
              => OwnedState(InnerOf(clone', inner')) = OwnedState(InnerOf(clone, inner))
        /\ ret'.op = "clone_update" => OwnedState(inner') = OwnedState(inner)

\* C24: a clone is an independent snapshot of the owned state.  An update
\* applied to the original after the clone was taken leaves the clone's pool
\* descriptor, asset list, pricing scheme and calculator registry unchanged,
\* and an update applied to the clone leaves the original's unchanged.
C24_CloneIndependent == [][UpdateLeavesOtherAlone]_vars

\* the original has been updated to another pool and another list after the
\* clone was taken, and the clone still holds the ones it was taken with
C24_Witness ==
    /\ clone.taken
    /\ ret.op = "update"
    /\ ret.err.kind = "Ok"
    /\ inner.pool # InnerOf(clone, inner).pool
    /\ inner.lst_state_list_data # InnerOf(clone, inner).lst_state_list_data
    /\ inner.lst_calcs # InnerOf(clone, inner).lst_calcs

(* the quote returned *)

\* quote has returned the quote made of the trade engine's answer
Quoted == ret.op = "quote" /\ ret.res.kind = "Ok"

\* C25: the fee amount of a quote is the lp fee plus the protocol fee in
\* saturating addition: the exact sum when it fits the width, the largest
\* value of the width otherwise, never a wrapped one.
C25_FeeSaturates ==
    Quoted =>
        LET sum == ret.trade.q.lp_fee + ret.trade.q.protocol_fee
        IN  /\ sum <= U64_MAX => ret.res.quote.fee_amount = sum
            /\ sum > U64_MAX => ret.res.quote.fee_amount = U64_MAX

\* a quote whose two fees do not fit the width together
C25_Witness ==
    /\ Quoted
    /\ ret.trade.q.lp_fee + ret.trade.q.protocol_fee > U64_MAX
    /\ ret.res.quote.fee_amount = U64_MAX

\* C26: the denominator of the fee percentage is the input amount when the
\* fee mint is the input mint, and otherwise the output amount plus the fee
\* amount in saturating addition.  With an lp fee of 100, a protocol fee of
\* 50, the fee in the output mint and an output amount of 10000, the fee
\* amount is 150 and the denominator 10150.
C26_Denominator ==
    Quoted =>
        LET q == ret.trade.q
            fee == ret.res.quote.fee_amount
            pct == ret.res.quote.fee_pct
        IN  /\ pct.num = fee
            /\ ret.trade.fee_mint = q.inp_mint => pct.den = q.inp
            /\ ret.trade.fee_mint # q.inp_mint
                  => pct.den = (IF q.out + fee > U64_MAX THEN U64_MAX ELSE q.out + fee)
            /\ (q.lp_fee = 100 /\ q.protocol_fee = 50 /\ q.out = 10000
                   /\ ret.trade.fee_mint # q.inp_mint)
                  => fee = 150 /\ pct.den = 10150

\* the quote of the example, and one with the fee in the input mint
C26_Witness ==
    /\ Quoted
    /\ ret.trade.q.lp_fee = 100
    /\ ret.trade.q.protocol_fee = 50
    /\ ret.trade.q.out = 10000
    /\ ret.trade.fee_mint # ret.trade.q.inp_mint
    /\ ret.res.quote.fee_pct = [num |-> 150, den |-> 10150]

\* C27: when the fee percentage has no decimal, its denominator being zero,
\* quote returns the percentage-conversion error and no quote; for every
\* other answer of the trade engine it returns a quote carrying the engine's
\* input amount, output amount and fee mint unchanged.
C27_DecimalErr ==
    (ret.op = "quote" /\ ret.trade.ok) =>
        LET q == ret.trade.q
            zero == IF ret.trade.fee_mint = q.inp_mint THEN q.inp = 0
                    ELSE q.out = 0 /\ q.lp_fee = 0 /\ q.protocol_fee = 0
        IN  IF zero THEN ret.res = [kind |-> "Decimal err"]
            ELSE /\ ret.res.kind = "Ok"
                 /\ ret.res.quote.in_amount = q.inp
                 /\ ret.res.quote.out_amount = q.out
                 /\ ret.res.quote.fee_mint = ret.trade.fee_mint

\* quote has returned the conversion error for a trade with fees on an input
\* amount of zero
C27_Witness ==
    /\ ret.op = "quote"
    /\ ret.trade.ok
    /\ ret.trade.fee_mint = ret.trade.q.inp_mint
    /\ ret.trade.q.inp = 0
    /\ ret.trade.q.lp_fee > 0
    /\ ret.res.kind = "Decimal err"

(* the swap instruction *)

\* C28: of the account metas get_swap_and_account_metas returns none is a
\* signer, the first is the pool program's ID, read-only, and each one after
\* it carries a key of the trade instruction, in the instruction's order,
\* with the writer flag of that key.
C28_AccountMetas ==
    (ret.op = "get_swap_and_account_metas" /\ ret.res.ok) =>
        LET metas == ret.res.account_metas
        IN  /\ Len(metas) = 1 + Len(ret.ix.keys)
            /\ metas[1].pubkey = INF_PROGRAM_ID
            /\ ~metas[1].is_writable
            /\ \A i \in DOMAIN metas : ~metas[i].is_signer
            /\ \A i \in DOMAIN ret.ix.keys :
                  /\ metas[i + 1].pubkey = ret.ix.keys[i]
                  /\ metas[i + 1].is_writable = ret.ix.is_writer[i]

\* the metas of an instruction that names the transfer authority, with a
\* writable and a read-only key
C28_Witness ==
    /\ ret.op = "get_swap_and_account_metas"
    /\ ret.res.ok
    /\ \E i, j, k \in DOMAIN ret.ix.keys :
          /\ ret.res.account_metas[i + 1].pubkey = TOKEN_TRANSFER_AUTHORITY
          /\ ret.res.account_metas[j + 1].is_writable
          /\ ~ret.res.account_metas[k + 1].is_writable

(* construction *)

\* C29: construction from a keyed account whose key is not the asset-list
\* address returns an error and produces no instance; the pool descriptor's
\* address is rejected as any other.
C29_WrongKeyRejected ==
    (ret.op = "from_keyed_account" /\ ret.key # LST_STATE_LIST_ID) =>
        /\ ret.err.kind # "Ok"
        /\ inner = NoInstance

\* construction from the pool descriptor's address has failed
C29_Witness ==
    /\ ret.op = "from_keyed_account"
    /\ ret.key = POOL_STATE_ID
    /\ ret.err.kind # "Ok"
    /\ inner = NoInstance

\* C30: construction from the asset-list account creates a calculator for
\* every asset of the list, passing over those whose spl data is missing
\* without failing; it fails, with that error and without an instance, when
\* another error arises creating a calculator; and no update of the
\* instance fails for a calculator that was never created.
C30_CalculatorsAtConstruction ==
    /\ (ret.op = "from_keyed_account" /\ ret.key = LST_STATE_LIST_ID) =>
          LET list == LstLists[ledger.list]
          IN  IF \E i \in DOMAIN list : list[i].sol_value_calculator \notin SvcKinds
              THEN ret.err.kind = "UnknownSvc" /\ inner = NoInstance
              ELSE /\ ret.err.kind = "Ok"
                   /\ inner # NoInstance
                   /\ \A i \in DOMAIN list :
                         IF LacksSplData(list[i])
                         THEN list[i].mint \notin DOMAIN inner.lst_calcs
                         ELSE /\ list[i].mint \in DOMAIN inner.lst_calcs
                              /\ inner.lst_calcs[list[i].mint].kind
                                    = list[i].sol_value_calculator
    /\ ret.op = "update" => ret.err.kind # "MissingSvcData"

\* an instance constructed from a list with an asset whose spl data is
\* missing: that asset has no calculator, another asset of the list has one
C30_Witness ==
    /\ ret.op = "from_keyed_account"
    /\ ret.err.kind = "Ok"
    /\ \E l \in Range(LstLists[ledger.list]) :
          LacksSplData(l) /\ l.mint \notin DOMAIN inner.lst_calcs
    /\ \E l \in Range(LstLists[ledger.list]) : l.mint \in DOMAIN inner.lst_calcs

(* total pool value *)

\* C31 as stated: in every state the total pool value of the pool descriptor
\* is the sum of the reserve values of the stored asset list.
C31_AsStated ==
    inner.pool.total_sol_value = SumSolValue(LstStateListOrDefault(inner))

\* C31: after every successful update the total pool value of the pool
\* descriptor is the one of the pool account fetched for that update and
\* equals the sum of the reserve values of the stored asset list, which is
\* the list fetched for it; nothing of either is left from an earlier cycle.
C31_TotalAfterUpdate ==
    (ret.op = "update" /\ ret.err.kind = "Ok") =>
        /\ inner.pool = AmVal(ret.account_map, POOL_STATE_ID)
        /\ LstStateListOrDefault(inner) = AmVal(ret.account_map, LST_STATE_LIST_ID)
        /\ inner.pool.total_sol_value = SumSolValue(LstStateListOrDefault(inner))

\* a successful update over a list whose reserve values sum to another total
\* than those of the list the instance was constructed with
C31_Witness ==
    /\ ret.op = "update"
    /\ ret.err.kind = "Ok"
    /\ inner.pool.total_sol_value = SumSolValue(LstLists[2])
    /\ SumSolValue(LstLists[2]) # SumSolValue(LstLists[1])
    /\ inner.lst_state_list_data.val = LstLists[2]

(* identity *)

\* C32: key() returns the program ID of the pool program, in every state.
C32_KeyIsProgramId == ret.op = "key" => ret.res = INF_PROGRAM_ID

(* the pricing stage of update *)

\* the accounts the pricing scheme of the mirror is refreshed from, over the
\* mints of the asset list the mirror stores
StoredPricingAccs ==
    IF inner.pricing.kind = "FlatFee"
    THEN {FLATFEE_STATE} \cup {FeeAcc(l.mint) : l \in Range(LstStateListOrDefault(inner))}
    ELSE {FLATSLAB_SLAB}

\* update has stopped at the pricing stage
PricingFailed(r) ==
    r.op = "update" /\ r.err.kind # "Ok" /\ Len(r.log) = 3 /\ r.err.at # LST_STATE_LIST_ID

\* the pricing stage is the fourth, once, and has read the fee account of
\* every mint of the list just stored; its failure names one of its accounts
PricingOnceOverStoredList ==
    ret.op = "update" =>
        /\ Count(<<"pricing", "">>, ret.log) <= 1
        /\ <<"pricing", "">> \in Range(ret.log) =>
              /\ ret.log[2] = <<"lst_state_list", "">>
              /\ ret.log[4] = <<"pricing", "">>
              /\ LstStateListOrDefault(inner) = AmVal(ret.account_map, LST_STATE_LIST_ID)
              /\ inner.pricing.kind = "FlatFee" =>
                    /\ inner.pricing.state_loaded
                    /\ \A l \in Range(LstStateListOrDefault(inner)) :
                          l.mint \in inner.pricing.fees
        /\ PricingFailed(ret) =>
              /\ ret.err.at \in StoredPricingAccs
              /\ ret.log[2] = <<"lst_state_list", "">>

\* an update that stops at the pricing stage touches no reserve or calculator
PricingFailureTouchesNoAsset ==
    PricingFailed(ret') =>
        /\ inner'.lst_reserves = inner.lst_reserves
        /\ inner'.lst_calcs = inner.lst_calcs

\* C33: update refreshes the pricing scheme once per call, after the asset
\* list has been replaced and over the mints of the list just stored, not of
\* the list held before; when that refresh fails, update stops before any
\* reserve or calculator is touched.
C33_PricingStage == []PricingOnceOverStoredList /\ [][PricingFailureTouchesNoAsset]_vars

\* an update has stored a list with a newly listed asset and has failed on
\* the fee account of that asset
C33_Witness ==
    /\ PricingFailed(ret)
    /\ inner.lst_state_list_data.val = LstLists[2]
    /\ ret.err.at = FeeAcc(STSOL_MINT_ADDR)
    /\ STSOL_MINT_ADDR \notin DOMAIN inner.lst_calcs

(* clock data in the calculators *)

\* C34: after any sequence of updates the current epoch held inside every
\* calculator is still 0, no update writing clock data into one, so that the
\* calculator's own not-updated check never fails.
C34_CalcEpochZero ==
    \A mint \in DOMAIN inner.lst_calcs :
        /\ inner.lst_calcs[mint].current_epoch = 0
        /\ ~CalcNotUpdated(inner.lst_calcs[mint])

\* an update on a fetched map that holds the clock, at epoch 1, has loaded a
\* time-bound calculator with data of that epoch
C34_Witness ==
    /\ ret.op = "update"
    /\ ret.err.kind = "Ok"
    /\ AmHas(ret.account_map, SYSVAR_CLOCK)
    /\ AmVal(ret.account_map, SYSVAR_CLOCK) = 1
    /\ \E mint \in DOMAIN inner.lst_calcs :
          /\ inner.lst_calcs[mint].kind \in ClockKinds
          /\ inner.lst_calcs[mint].loaded
          /\ inner.lst_calcs[mint].epoch = 1
          /\ <<"calc", mint>> \in Range(ret.log)

(* an asset list that does not parse *)

\* C35: while the stored asset-list bytes do not parse,
\* get_accounts_to_update returns, without an error, the three fixed
\* addresses and the addresses of the pricing scheme for no mint, and no
\* per-asset address; get_reserve_mints returns the LP mint alone.
C35_UnparseableList ==
    inner.lst_state_list_data.bad =>
        /\ ret.op = "get_accounts_to_update" =>
              ret.accounts
                = <<POOL_STATE_ID, LST_STATE_LIST_ID, MintAcc(inner.pool.lp_token_mint),
                    IF inner.pricing.kind = "FlatFee" THEN FLATFEE_STATE ELSE FLATSLAB_SLAB>>
        /\ ret.op = "get_reserve_mints" => ret.mints = <<inner.pool.lp_token_mint>>

\* get_accounts_to_update has answered with four addresses on an instance
\* that holds calculators and list bytes that do not parse
C35_Witness ==
    /\ ret.op = "get_accounts_to_update"
    /\ inner.lst_state_list_data.bad
    /\ DOMAIN inner.lst_calcs # {}
    /\ Len(ret.accounts) = 4

(* no rollback *)

\* C36: update does not roll back.  When it fails, the stages it went
\* through stay applied: past the pool stage the pool descriptor is the
\* fetched one, past the list stage the list bytes are the fetched ones, so
\* after a failure at the LP-supply or the pricing stage both are new; and
\* get_accounts_to_update is computed from the state a failed update left.
C36_NoRollback ==
    /\ (ret.op = "update" /\ ret.err.kind # "Ok") =>
          LET am == ret.account_map
          IN  /\ Len(ret.log) >= 1 => inner.pool = AmVal(am, POOL_STATE_ID)
              /\ Len(ret.log) >= 2 =>
                    inner.lst_state_list_data
                      = IF AmBad(am, LST_STATE_LIST_ID) THEN [bad |-> TRUE, val |-> <<>>]
                        ELSE [bad |-> FALSE, val |-> AmVal(am, LST_STATE_LIST_ID)]
              /\ Len(ret.log) >= 3 =>
                    inner.lp_token_supply.some
    /\ ret.op = "get_accounts_to_update" =>
          /\ ret.accounts[3] = MintAcc(inner.pool.lp_token_mint)
          /\ ret.accounts[4] = IF inner.pool.pricing_program = "FlatFee"
                                THEN FLATFEE_STATE ELSE FLATSLAB_SLAB

\* get_accounts_to_update asks for the LP mint of a pool descriptor that an
\* update stored before failing on that mint's account, the only update made
C36_Witness ==
    /\ ret.op = "get_accounts_to_update"
    /\ inner.pool.lp_token_mint # DEFAULT_MAINNET_POOL.lp_token_mint
    /\ ~inner.lp_token_supply.some
    /\ ret.accounts[3] = MintAcc(inner.pool.lp_token_mint)

(* the tolerated asset in the next cycle *)

\* C37: an update whose fetched map holds exactly the addresses the
\* preceding get_accounts_to_update returned, all present on the ledger,
\* fails neither at the reserve refresh nor at the calculator step of a listed
\* asset that has no calculator because its spl data is missing.
C37_ToleratedAssetPasses ==
    (/\ ret.op = "update"
     /\ ret.account_map.dom = "requested"
     /\ ret.account_map.fault = NoFault) =>
        \A l \in Range(LstStateListOrDefault(inner)) :
            (LacksSplData(l) /\ ret.err.kind # "Ok")
                => ret.err.at \notin {ReservesAcc(l.mint), MintAcc(l.mint)}

(* the order of the staleness gate *)

\* mint is epoch-affected and has no calculator with data
LacksCalcData(mint) ==
    /\ is_epoch_affected_lst_mint(mint)
    /\ (mint \notin DOMAIN inner.lst_calcs \/ ~inner.lst_calcs[mint].loaded)

\* mint is epoch-affected and its time-bound calculator's data is older than
\* the epoch counter
HasStaleCalc(mint) ==
    /\ is_epoch_affected_lst_mint(mint)
    /\ mint \in DOMAIN inner.lst_calcs
    /\ inner.lst_calcs[mint].loaded
    /\ inner.lst_calcs[mint].kind \in ClockKinds
    /\ inner.lst_calcs[mint].epoch < current_epoch

\* C38: the staleness gate checks the input mint before the output mint and
\* returns the first failure: when the input mint fails, quote returns the
\* input mint's error, whatever the output mint's state.
C38_InputChecked1st ==
    ret.op = "quote" =>
        /\ LacksCalcData(ret.input_mint)
              => ret.res.kind = "MissingSvcData" /\ ret.res.mint = ret.input_mint
        /\ HasStaleCalc(ret.input_mint) => ret.res.kind = "NotUpdated"

\* quote has returned MissingSvcData for an input mint without calculator
\* while the calculator of the output mint is stale
C38_Witness ==
    /\ ret.op = "quote"
    /\ LacksCalcData(ret.input_mint)
    /\ HasStaleCalc(ret.output_mint)
    /\ ret.res.kind = "MissingSvcData"
    /\ ret.res.mint = ret.input_mint

(* the shared epoch counter *)

\* in mirror inn the time-bound calculator of epoch-affected mint has data
\* older than the epoch counter
StaleCalcOf(inn, mint) ==
    /\ is_epoch_affected_lst_mint(mint)
    /\ mint \in DOMAIN inn.lst_calcs
    /\ inn.lst_calcs[mint].loaded
    /\ inn.lst_calcs[mint].kind \in ClockKinds
    /\ inn.lst_calcs[mint].epoch < current_epoch

\* quote on an instance, original or clone, fails as stale while the marker
\* of the input mint is behind the one counter, and gets past the gate only
\* with no marker of its two mints behind it
StaleOnEveryInstance ==
    /\ ret.op \in {"quote", "clone_quote"} =>
          LET mine == IF ret.op = "quote" THEN inner ELSE InnerOf(clone, inner)
          IN  /\ StaleCalcOf(mine, ret.input_mint) => ret.res.kind = "NotUpdated"
              /\ ret.res.kind = "Engine" =>
                    /\ ~StaleCalcOf(mine, ret.input_mint)
                    /\ ~StaleCalcOf(mine, ret.output_mint)

\* the marker of a calculator moves only in an update of the instance that
\* holds the calculator
MarkerMovesByOwnUpdate ==
    \A mint \in Mints :
        /\ (/\ mint \in DOMAIN inner.lst_calcs
            /\ mint \in DOMAIN inner'.lst_calcs
            /\ inner'.lst_calcs[mint].epoch # inner.lst_calcs[mint].epoch)
              => ret'.op = "update"
        /\ (/\ clone.taken
            /\ clone'.taken
            /\ mint \in DOMAIN InnerOf(clone, inner).lst_calcs
            /\ mint \in DOMAIN InnerOf(clone', inner').lst_calcs
            /\ InnerOf(clone', inner').lst_calcs[mint].epoch
                  # InnerOf(clone, inner).lst_calcs[mint].epoch)
              => ret'.op = "clone_update"

\* C39: an instance and its clones read one shared epoch counter.  Once the
\* clock source has moved it past a calculator's marker, quote on that mint
\* fails as stale on the original and on the clone alike, no update being
\* needed for either to see the new epoch, and an instance gets past the gate
\* again only after an update of its own has raised its marker to the counter.
C39_SharedEpochCounter == []StaleOnEveryInstance /\ [][MarkerMovesByOwnUpdate]_vars

\* quote on the clone has failed as stale on a mint whose marker is behind
\* the counter in the clone and in the original
C39_Witness ==
    /\ ret.op = "clone_quote"
    /\ ret.res.kind = "NotUpdated"
    /\ current_epoch > 0
    /\ StaleCalcOf(inner, ret.input_mint)
    /\ StaleCalcOf(InnerOf(clone, inner), ret.input_mint)

(* the arguments of the trade instruction *)

\* C40: get_swap_and_account_metas asks for the trade instruction with the
\* input amount as amount and the output amount as limit in exact-input
\* mode, with the output amount as amount and the input amount as limit in
\* exact-output mode, the source mint and token account on the input side
\* and the destination mint and token account on the output side.
C40_TradeIxArgs ==
    ret.op = "get_swap_and_account_metas" =>
        LET p == ret.params
            a == ret.args
        IN  /\ ret.limit_ty = p.swap_mode
            /\ p.swap_mode = "ExactIn" => a.amt = p.in_amount /\ a.limit = p.out_amount
            /\ p.swap_mode = "ExactOut" => a.amt = p.out_amount /\ a.limit = p.in_amount
            /\ a.mints.inp = p.source_mint
            /\ a.mints.out = p.destination_mint
            /\ a.token_accs.inp = p.source_token_account
            /\ a.token_accs.out = p.destination_token_account
            /\ a.signer = p.token_transfer_authority

\* the arguments of an exact-output swap of distinct mints and amounts
C40_Witness ==
    /\ ret.op = "get_swap_and_account_metas"
    /\ ret.params.swap_mode = "ExactOut"
    /\ ret.params.in_amount # ret.params.out_amount
    /\ ret.params.source_mint # ret.params.destination_mint
    /\ ret.args.amt = ret.params.out_amount
    /\ ret.args.limit = ret.params.in_amount
    /\ ret.res.ok

====
